---- MODULE Spec2Model ----
(***************************************************************************)
(* Fixit-AI: the verification orchestrator (one vulnerability task driven  *)
(* through the verify-first workflow by concurrent requests), the          *)
(* checkpointed analysis runner (analyze_repository_async /                *)
(* analyze_with_checkpoints / resume_session), the synchronous analysis    *)
(* (analyze_repository) and the response parser.                           *)
(***************************************************************************)
EXTENDS Integers, Sequences, FiniteSets, TLC

VARIABLES
    task,       \* the Task row driven by the orchestrator
    tasklog,    \* TaskLog rows of that task, in creation order
    pulls,      \* number of PullRequest rows of that task
    inv,        \* per invocation: its position, its arguments, the Task
                \* object it holds in memory, the database statements it
                \* has yet to issue, and a record of what it did
    ninv,       \* number of invocations started so far
    tmp,        \* temporary files and directories of test runs left on disk
    turn,       \* the invocation, or the worker, that took the latest step
                \* (0: none so far)
    npre,       \* number of steps taken between two steps of another
                \* invocation or of another worker's run
    session,    \* the AnalysisSession row
    checkpoints,\* the CheckPoint rows of the session
    dbtasks,    \* Task rows of the repository, counted per file path, apart
                \* by created_at before or after session.started_at
    repo,       \* the Repository row (status, analysis_progress)
    wk,         \* per worker: locals of analyze_repository_async and
                \* analyze_with_checkpoints, and a record of what the run did
    view,       \* locals of a resume_session request in progress
    nresume,    \* number of resume_session requests accepted so far
    nfault,     \* statements that raised so far: of the runs (the fetch of
                \* the file list, inserts into the log table, broadcasts),
                \* of the requests for the task (inserts into TaskLog,
                \* task.save(), the removal of a temporary file or
                \* directory)
    nraise,     \* calls of the per-file analyzer that raised so far
    sync,       \* locals of a call of AnalyzerService.analyze_repository
    gemini_response, \* the list handed to parse_vulnerabilities
    validated,  \* the list parse_vulnerabilities returned
    ppc         \* position of the parse_vulnerabilities call

ovars == <<task, tasklog, pulls, inv, ninv, tmp, turn, npre>>

tvars == <<task, tasklog, pulls, inv, ninv, tmp>>

rvars == <<session, checkpoints, dbtasks, repo, wk, view, nresume, nfault,
           nraise, sync>>

svars == <<session, checkpoints, dbtasks, repo, wk, view, nresume, nraise,
           sync>>

pvars == <<gemini_response, validated, ppc>>

vars == <<task, tasklog, pulls, inv, ninv, tmp, turn, npre,
          session, checkpoints, dbtasks, repo, wk, view, nresume, nfault,
          nraise, sync,
          gemini_response, validated, ppc>>

----------------------------------------------------------------------------
(* Bounds *)

\* Requests for the task (verify_and_fix, process_single_task_async,
\* create_prs_for_repository) in one behaviour; a raising statement of a
\* request counts as one of them.
MaxInvocations == 2

\* Times a step of a request, or of a run, falls between two steps of
\* another request or of another worker's run.
MaxPreemptions == 1

\* Length of the candidate file list returned by get_repo_files.
NumFiles == 4

\* checkpoint_interval argument of analyze_with_checkpoints (default 5).
CheckpointInterval == 2

\* resume_session requests accepted in one behaviour.
MaxResumes == 1

\* Statements that raise in one behaviour; every queue-level retry of a
\* run allows one more while no resume request was accepted.  Of the runs:
\* get_repo_files, create_session_log, broadcast_progress_update (the
\* IntegrityError of a duplicate checkpoint number follows from the rows
\* and is not counted).  Of the requests for the task:
\* TaskLog.objects.create, task.save(), os.unlink and shutil.rmtree of the
\* test runner.
MaxFaults == 1

\* Calls of the per-file analyzer that raise in one behaviour.
MaxRaises == 2

----------------------------------------------------------------------------
(* Verification orchestrator *)

MAX_RETRIES == 1

\* What the test generator returns for the task when it returns a test:
\* the text differs from call to call.
TestCodes == {"test_a", "test_b"}

Invocations == 1..MaxInvocations

\* The fields of a Task row the workflow reads and writes, at their defaults.
NewTask ==
    [status |-> "pending", test_status |-> "pending", fix_status |-> "pending",
     retry_count |-> 0, test_code |-> "", fix_code |-> "",
     validation_message |-> <<>>, verified_at |-> FALSE]

\* TaskLog.objects.create(task=task, message=f"[{level}] {message}")
LogEntry(level, message) == "[" \o level \o "] " \o message

\* The database statements of the workflow, in the order a request issues
\* them: self._log(task, ...), task.save() writing every field of the
\* object in memory, and the PullRequest row create_pull_request records.
\* row is the Task object as the request holds it when it issues the
\* statement, try the try block the statement stands in ("none": in no
\* try block of the orchestrator).
LogOp(level, message, t) ==
    [op |-> "log", msg |-> LogEntry(level, message), row |-> t, try |-> "none"]

SaveOp(t) == [op |-> "save", msg |-> "", row |-> t, try |-> "none"]

PullOp(t) == [op |-> "pr", msg |-> "", row |-> t, try |-> "none"]

\* The statements ops, issued inside the try block blk.
Within(blk, ops) == [k \in 1..Len(ops) |-> [ops[k] EXCEPT !.try = blk]]

\* The "except Exception" clause of _generate_test, of
\* _verify_vulnerability_exists, of _generate_fix and of _verify_fix, for
\* the object t the request holds when the exception is raised: the log
\* entry it writes and the object it saves.
Handler(blk, t) ==
    CASE blk = "generate_test" ->
           [msg |-> "Error generating test",
            t |-> [t EXCEPT !.test_status = "error",
                            !.validation_message = <<"exception">>]]
      [] blk = "verify_vulnerability" ->
           [msg |-> "Error running test",
            t |-> [t EXCEPT !.test_status = "error",
                            !.validation_message = <<"exception">>]]
      [] blk = "generate_fix" ->
           [msg |-> "Error generating fix",
            t |-> [t EXCEPT !.fix_status = "failed",
                            !.validation_message = <<"exception">>]]
      [] blk = "verify_fix" ->
           [msg |-> "Error verifying fix",
            t |-> [t EXCEPT !.fix_status = "failed",
                            !.validation_message = <<"exception">>]]

\* The statements of that clause, which stand in no try block themselves.
HandlerStatements(blk, t) ==
    <<LogOp("error", Handler(blk, t).msg, t), SaveOp(Handler(blk, t).t)>>

\* A request slot before the request arrives.  t is the Task object in
\* memory, pr_url the attribute _create_github_pr sets on it ("": not
\* set); t0, ran, ending, mylog and result record what the request did and are not
\* read by the code (ran: the test runs, with ok telling whether the step
\* that made the run returned True).
IdleInvocation ==
    [pc |-> "idle", via |-> "none", create_pr |-> FALSE,
     t |-> NewTask, pr_url |-> "", ret |-> "none", todo |-> <<>>,
     t0 |-> NewTask, ran |-> <<>>, ending |-> "none", mylog |-> <<>>,
     result |-> "none"]

OInit ==
    /\ task = NewTask
    /\ tasklog = <<>>
    /\ pulls = 0
    /\ inv = [i \in Invocations |-> IdleInvocation]
    /\ ninv = 0
    /\ tmp = {}
    /\ turn = 0
    /\ npre = 0

\* The request has arrived and has not yet finished.
UnderWay(i) ==
    /\ inv[i].pc # "idle"
    /\ ~(inv[i].pc = "done" /\ inv[i].todo = <<>>)

\* The request is under way and is not waiting for the subprocess that
\* VerificationOrchestrator() starts in create_prs_for_repository, during
\* which other requests are served.
Busy(i) == UnderWay(i) /\ inv[i].pc # "prs_construct"

\* Requests are served by separate threads and worker processes with no
\* lock on the task: a step of request i may fall between two steps of
\* another request.
Scheduled(i) ==
    /\ \/ turn \in {0, i}
       \/ turn \notin {0, i} /\ ~Busy(turn)
       \/ turn \notin {0, i} /\ Busy(turn) /\ npre < MaxPreemptions
    /\ npre' = IF turn \notin {0, i} /\ Busy(turn) THEN npre + 1 ELSE npre
    /\ turn' = i

\* A behaviour holds at most MaxFaults raising statements, and requests and
\* raising statements of requests together at most MaxInvocations.
Raising(happens) ==
    /\ happens => (nfault < MaxFaults /\ ninv + nfault < MaxInvocations)
    /\ nfault' = IF happens THEN nfault + 1 ELSE nfault

\* Request i stands at position pc with every statement issued.
At(i, pc) == inv[i].pc = pc /\ inv[i].todo = <<>>

\* The next statement of request i reaches the database: a TaskLog row.
Log(i) ==
    /\ inv[i].todo # <<>>
    /\ Head(inv[i].todo).op = "log"
    /\ tasklog' = Append(tasklog, Head(inv[i].todo).msg)
    /\ inv' = [inv EXCEPT ![i] = [@ EXCEPT !.todo = Tail(@),
                                           !.mylog = Append(@, Head(inv[i].todo).msg)]]
    /\ Scheduled(i)
    /\ UNCHANGED <<task, pulls, ninv, tmp>>
    /\ UNCHANGED <<svars, pvars, nfault>>

\* task.save(): every field of the row is written from the object.
Save(i) ==
    /\ inv[i].todo # <<>>
    /\ Head(inv[i].todo).op = "save"
    /\ task' = Head(inv[i].todo).row
    /\ inv' = [inv EXCEPT ![i] = [@ EXCEPT !.todo = Tail(@)]]
    /\ Scheduled(i)
    /\ UNCHANGED <<tasklog, pulls, ninv, tmp>>
    /\ UNCHANGED <<svars, pvars, nfault>>

\* pr.pr_url of the pull request PRCreator.create_pull_request returns.
PullRequestUrl == "pr_url"

\* PRCreator.create_pull_request records the pull request it opened, and
\* _create_github_pr sets task.pr_url from what it returned.
RecordPullRequest(i) ==
    /\ inv[i].todo # <<>>
    /\ Head(inv[i].todo).op = "pr"
    /\ pulls' = pulls + 1
    /\ inv' = [inv EXCEPT ![i] = [@ EXCEPT !.todo = Tail(@),
                                           !.pr_url = PullRequestUrl]]
    /\ Scheduled(i)
    /\ UNCHANGED <<task, tasklog, ninv, tmp>>
    /\ UNCHANGED <<svars, pvars, nfault>>

\* A request arrives and loads the task: the verify_and_fix view calls the
\* orchestrator with the object it loaded; process_single_task_async first
\* stores status = 'processing'.
Invoke(i, via, create_pr) ==
    /\ i = ninv + 1
    /\ ninv + nfault < MaxInvocations
    /\ inv[i].pc = "idle"
    /\ ninv' = ninv + 1
    /\ LET t1 == IF via = "celery" THEN [task EXCEPT !.status = "processing"] ELSE task
       IN inv' = [inv EXCEPT ![i] =
                    [IdleInvocation EXCEPT !.pc = "construct",
                                           !.via = via,
                                           !.create_pr = create_pr,
                                           !.t = t1,
                                           !.t0 = task,
                                           !.todo = IF via = "celery"
                                                      THEN <<SaveOp(t1)>> ELSE <<>>]]
    /\ Scheduled(i)
    /\ UNCHANGED <<task, tasklog, pulls, tmp>>
    /\ UNCHANGED <<svars, pvars, nfault>>

\* VerificationOrchestrator(): TestRunner() checks that pytest can be run
\* and raises RuntimeError otherwise; ok says that it could.  Then the
\* first statement of verify_and_fix_vulnerability.
Construct(i, ok) ==
    /\ At(i, "construct")
    /\ inv' = [inv EXCEPT ![i] =
                 IF ok
                   THEN [@ EXCEPT !.pc = "generate_test",
                                  !.todo = <<LogOp("info", "Starting verification workflow", inv[i].t)>>]
                   ELSE IF @.via = "celery"
                   THEN [@ EXCEPT !.pc = "handler", !.ret = "raised"]
                   ELSE [@ EXCEPT !.pc = "done", !.ret = "raised", !.result = "raised"]]
    /\ Scheduled(i)
    /\ UNCHANGED <<task, tasklog, pulls, ninv, tmp>>
    /\ UNCHANGED <<svars, pvars, nfault>>

\* _generate_test: out is the generator's result ("" = empty), or "raise"
\* when the generator raises.
GenerateTest(i, out) ==
    /\ At(i, "generate_test")
    /\ LET t == inv[i].t
           first == LogOp("info", "Generating test...", t)
       IN IF out = "raise"
            THEN inv' = [inv EXCEPT ![i] =
                       [@ EXCEPT !.pc = "returned", !.ret = "False",
                                 !.t = Handler("generate_test", t).t,
                                 !.todo = <<first>>
                                          \o HandlerStatements("generate_test", t)]]
            ELSE IF out = ""
            THEN LET t1 == [t EXCEPT !.test_status = "error",
                                     !.validation_message = <<"Failed to generate test code">>]
                 IN inv' = [inv EXCEPT ![i] =
                       [@ EXCEPT !.pc = "returned", !.ret = "False", !.t = t1,
                                 !.todo = <<first>>
                                          \o Within("generate_test",
                                                <<LogOp("error", "Failed to generate test", t),
                                                  SaveOp(t1)>>)]]
            ELSE LET t1 == [t EXCEPT !.test_code = out, !.test_status = "generated"]
                 IN inv' = [inv EXCEPT ![i] =
                       [@ EXCEPT !.pc = "enter_verify_vulnerability", !.t = t1,
                                 !.todo = <<first>>
                                          \o Within("generate_test",
                                                <<SaveOp(t1),
                                                  LogOp("info", "Test generated successfully", t1)>>)]]
    /\ Scheduled(i)
    /\ UNCHANGED <<task, tasklog, pulls, ninv, tmp>>
    /\ UNCHANGED <<svars, pvars, nfault>>

\* How the pytest subprocess started by run_test can end: with return code
\* 0 (all tests passed), 1 (a test failed), another code (collection or
\* internal error, no tests), by exceeding the timeout, or not at all
\* because starting it raised.  Ahead of run_test's try block,
\* "tempfile_create_error" is the temporary file that cannot be created and
\* "tempfile_error" the one that cannot be written.
TestEndings ==
    {"exit_0", "exit_1", "exit_2", "timeout", "oserror",
     "tempfile_error", "tempfile_create_error"}

\* The endings with which run_test raises.
RunTestRaises == {"tempfile_error", "tempfile_create_error"}

\* TestRunner.run_test: every ending inside its try block becomes a
\* TestResult, passed only for return code 0; raised marks the exception
\* that leaves run_test.
RunTest(ending) ==
    [raised |-> ending \in RunTestRaises,
     passed |-> ending = "exit_0",
     timed_out |-> ending = "timeout",
     output |-> CASE ending = "exit_0" -> "passed"
                  [] ending = "exit_1" -> "failed"
                  [] ending = "exit_2" -> "errors"
                  [] OTHER -> "",
     error |-> CASE ending = "timeout" -> "Test timed out"
                 [] ending = "oserror" -> "exception"
                 [] OTHER -> ""]

\* TestRunner.run_test, the temporary file: NamedTemporaryFile(delete=False)
\* creates it and the test code is written to it ahead of the try block;
\* os.unlink sits in that block's finally clause, which ignores an
\* exception of it (unlinked: os.unlink removed the file).
RunTestLeftover(ending, unlinked, call) ==
    LET created == IF ending = "tempfile_create_error"
                     THEN {} ELSE {[kind |-> "test_file", call |-> call]}
        entered_try == ending \notin RunTestRaises
        removed == IF entered_try /\ unlinked THEN created ELSE {}
    IN created \ removed

\* How a call of run_test_with_fix can end: inside its try block mkdtemp,
\* the two file writes or the start of pytest may raise, pytest may time
\* out or exit with some return code.  Every ending becomes a TestResult,
\* passed only for return code 0: run_test_with_fix raises nothing.
WithFixEndings ==
    {"exit_0", "exit_1", "exit_2", "timeout", "oserror", "write_error", "mkdtemp_error"}

\* result.passed of run_test_with_fix.
RunTestWithFix(ending) == [passed |-> ending = "exit_0"]

\* TestRunner.run_test_with_fix, the temporary directory: created by
\* mkdtemp inside the try block; the finally clause calls shutil.rmtree
\* whenever it was created and ignores an exception of it (removed:
\* shutil.rmtree removed the directory).
RunTestWithFixLeftover(ending, removed, call) ==
    LET created == IF ending = "mkdtemp_error"
                     THEN {} ELSE {[kind |-> "fix_dir", call |-> call]}
    IN IF removed THEN {} ELSE created

\* validation_message after the confirmation run gave result r without
\* passing: f"Test output: {result.output}\nError: {result.error}", the
\* two texts being whatever pytest printed.
ConfirmationMessage(r) == <<"Test output", "Error">>

\* A confirmation step that goes on to the fix when the test passes.
ConfirmationExitNoAbort(r) ==
    IF r.raised THEN [pc |-> "returned", ret |-> "False"]
                ELSE [pc |-> "fix_loop", ret |-> "none"]

\* Where _verify_vulnerability_exists leaves the workflow: it returns True
\* only when the test ran and did not pass.
ConfirmationExit(r) ==
    IF ~r.raised /\ ~r.passed THEN [pc |-> "fix_loop", ret |-> "none"]
                              ELSE [pc |-> "returned", ret |-> "False"]

\* _verify_vulnerability_exists, first statement: the log entry written
\* ahead of the try block.
EnterVerifyVulnerabilityExists(i) ==
    /\ At(i, "enter_verify_vulnerability")
    /\ inv' = [inv EXCEPT ![i] =
                 [@ EXCEPT !.pc = "verify_vulnerability",
                           !.todo = <<LogOp("info",
                                        "Running test to verify vulnerability exists...",
                                        inv[i].t)>>]]
    /\ Scheduled(i)
    /\ UNCHANGED <<task, tasklog, pulls, ninv, tmp>>
    /\ UNCHANGED <<svars, pvars, nfault>>

\* _verify_vulnerability_exists, the try block: ending is how the run of
\* the test against the original code ended, unlinked whether run_test
\* removed its file; the step branches on result.passed only, and its
\* handler sees what run_test raises.
VerifyVulnerabilityExists(i, ending, unlinked) ==
    /\ At(i, "verify_vulnerability")
    /\ ~unlinked => ending \notin RunTestRaises
    /\ Raising(~unlinked)
    /\ LET t == inv[i].t
           r == RunTest(ending)
           run == Len(inv[i].ran) + 1
           call == [step |-> "confirm", test_code |-> t.test_code,
                    fix_code |-> "none", ok |-> ~r.raised /\ ~r.passed]
           t1 == CASE r.raised -> Handler("verify_vulnerability", t).t
                   [] ~r.raised /\ r.passed ->
                        [t EXCEPT !.test_status = "passed",
                                  !.status = "false_positive",
                                  !.validation_message =
                                      <<"Test passed on first run - vulnerability does not exist">>]
                   [] OTHER ->
                        [t EXCEPT !.test_status = "failed",
                                  !.validation_message = ConfirmationMessage(r)]
           rest == CASE r.raised -> HandlerStatements("verify_vulnerability", t)
                     [] ~r.raised /\ r.passed ->
                          Within("verify_vulnerability",
                            <<LogOp("warning", "Test passed - vulnerability does not exist (false positive)", t),
                              SaveOp(t1)>>)
                     [] OTHER ->
                          Within("verify_vulnerability",
                            <<LogOp("info", "Test failed - vulnerability confirmed", t),
                              SaveOp(t1)>>)
       IN /\ tmp' = tmp \cup RunTestLeftover(ending, unlinked, <<i, run>>)
          /\ inv' = [inv EXCEPT ![i] =
                    [@ EXCEPT !.pc = ConfirmationExit(r).pc,
                              !.ret = ConfirmationExit(r).ret,
                              !.t = t1,
                              !.ran = Append(@, call),
                              !.ending = ending,
                              !.todo = rest]]
    /\ Scheduled(i)
    /\ UNCHANGED <<task, tasklog, pulls, ninv>>
    /\ UNCHANGED <<svars, pvars>>

\* What the fix generator returns for the task: a text of its own for
\* each attempt.
FixCodes(t) == {"fix_" \o ToString(t.retry_count + 1)}

\* A loop condition that allows one attempt too many.
RetriesRemainOffByOne(t) == t.retry_count <= MAX_RETRIES + 1

\* The loop condition of _generate_and_verify_fix.
RetriesRemain(t) == t.retry_count <= MAX_RETRIES

\* An empty fix counted as a failed attempt and tried again.
EmptyFixRetried(t) ==
    [t |-> [t EXCEPT !.fix_status = "failed",
                     !.retry_count = @ + 1,
                     !.validation_message = <<"Failed to generate fix code">>],
     pc |-> "fix_loop", ret |-> "none"]

\* _generate_fix when the generator returns nothing: the task is saved
\* with fix_status 'failed' and the workflow returns False.
EmptyFix(t) ==
    [t |-> [t EXCEPT !.fix_status = "failed",
                     !.validation_message = <<"Failed to generate fix code">>],
     pc |-> "returned", ret |-> "False"]

\* _generate_and_verify_fix, loop head plus _generate_fix: runs while
\* task.retry_count <= MAX_RETRIES; out is the fix generator's result, or
\* "raise" when the generator raises.
GenerateFix(i, out) ==
    /\ At(i, "fix_loop")
    /\ RetriesRemain(inv[i].t)
    /\ LET t == inv[i].t
           attempt == LogOp("info", "Fix attempt " \o ToString(t.retry_count + 1)
                                    \o "/" \o ToString(MAX_RETRIES + 1), t)
           first == LogOp("info", "Generating fix...", t)
       IN IF out = "raise"
            THEN inv' = [inv EXCEPT ![i] =
                       [@ EXCEPT !.pc = "returned", !.ret = "False",
                                 !.t = Handler("generate_fix", t).t,
                                 !.ending = "none",
                                 !.todo = <<attempt, first>>
                                          \o HandlerStatements("generate_fix", t)]]
            ELSE IF out = ""
            THEN inv' = [inv EXCEPT ![i] =
                       [@ EXCEPT !.pc = EmptyFix(t).pc, !.ret = EmptyFix(t).ret,
                                 !.t = EmptyFix(t).t,
                                 !.ending = "none",
                                 !.todo = <<attempt, first>>
                                          \o Within("generate_fix",
                                                <<LogOp("error", "Failed to generate fix", t),
                                                  SaveOp(EmptyFix(t).t)>>)]]
            ELSE LET t1 == [t EXCEPT !.fix_code = out, !.fix_status = "generated"]
                 IN inv' = [inv EXCEPT ![i] =
                       [@ EXCEPT !.pc = "enter_verify_fix", !.t = t1,
                                 !.ending = "none",
                                 !.todo = <<attempt, first>>
                                          \o Within("generate_fix",
                                                <<SaveOp(t1),
                                                  LogOp("info", "Fix generated successfully", t1)>>)]]
    /\ Scheduled(i)
    /\ UNCHANGED <<task, tasklog, pulls, ninv, tmp>>
    /\ UNCHANGED <<svars, pvars, nfault>>

\* _generate_and_verify_fix when the loop condition is false on arrival:
\* the loop body never runs and the method returns False.
FixLoopExit(i) ==
    /\ At(i, "fix_loop")
    /\ ~RetriesRemain(inv[i].t)
    /\ inv' = [inv EXCEPT ![i] = [@ EXCEPT !.pc = "returned", !.ret = "False"]]
    /\ Scheduled(i)
    /\ UNCHANGED <<task, tasklog, pulls, ninv, tmp>>
    /\ UNCHANGED <<svars, pvars, nfault>>

\* A loop body that counts a failed verification twice.
AfterFailedFixCountsTwice(t) ==
    LET t1 == [t EXCEPT !.retry_count = @ + 2]
        t2 == [t1 EXCEPT !.status = "false_positive",
                         !.fix_status = "failed",
                         !.validation_message =
                             Append(@, "Failed after all retry attempts")]
    IN
    IF RetriesRemain(t1)
      THEN [t |-> t1, pc |-> "fix_loop", ret |-> "none",
            todo |-> <<SaveOp(t1),
                       LogOp("info", "Fix failed, retrying... (attempt "
                                     \o ToString(t1.retry_count + 1) \o ")", t1)>>]
      ELSE [t |-> t2, pc |-> "returned", ret |-> "False",
            todo |-> <<SaveOp(t1),
                       LogOp("warning",
                             "Fix failed after all retries - marking as false positive", t1),
                       SaveOp(t2)>>]

\* The part of the loop body after a failed _verify_fix: count the retry
\* and save, then either go round again or give the task up as a false
\* positive.
AfterFailedFix(t) ==
    LET t1 == [t EXCEPT !.retry_count = @ + 1]
        t2 == [t1 EXCEPT !.status = "false_positive",
                         !.fix_status = "failed",
                         !.validation_message =
                             Append(@, "Failed after all retry attempts")]
    IN
    IF RetriesRemain(t1)
      THEN [t |-> t1, pc |-> "fix_loop", ret |-> "none",
            todo |-> <<SaveOp(t1),
                       LogOp("info", "Fix failed, retrying... (attempt "
                                     \o ToString(t1.retry_count + 1) \o ")", t1)>>]
      ELSE [t |-> t2, pc |-> "returned", ret |-> "False",
            todo |-> <<SaveOp(t1),
                       LogOp("warning",
                             "Fix failed after all retries - marking as false positive", t1),
                       SaveOp(t2)>>]

\* A verification that runs a test written for the fix at hand.
TestForVerificationRegenerated(t) == "test_for_" \o t.fix_code

\* The test _verify_fix hands to run_test_with_fix: test_code=task.test_code.
TestForVerification(t) == t.test_code

\* _verify_fix, first statement: the log entry written ahead of the try
\* block.
EnterVerifyFix(i) ==
    /\ At(i, "enter_verify_fix")
    /\ inv' = [inv EXCEPT ![i] =
                 [@ EXCEPT !.pc = "verify_fix",
                           !.todo = <<LogOp("info",
                                        "Verifying fix by running test again...",
                                        inv[i].t)>>]]
    /\ Scheduled(i)
    /\ UNCHANGED <<task, tasklog, pulls, ninv, tmp>>
    /\ UNCHANGED <<svars, pvars, nfault>>

\* _verify_fix, the try block, and the rest of the loop body; ending is
\* how the run of the test against the fixed code ended, removed whether
\* run_test_with_fix removed its directory.
VerifyFix(i, ending, removed) ==
    /\ At(i, "verify_fix")
    /\ ~removed => ending # "mkdtemp_error"
    /\ Raising(~removed)
    /\ tmp' = tmp \cup RunTestWithFixLeftover(ending, removed,
                                               <<i, Len(inv[i].ran) + 1>>)
    /\ LET t == inv[i].t
           passed == RunTestWithFix(ending).passed
           call == [step |-> "verify", test_code |-> TestForVerification(t),
                    fix_code |-> t.fix_code, ok |-> passed]
       IN IF passed
            THEN LET t1 == [t EXCEPT !.test_status = "passed",
                                     !.fix_status = "verified",
                                     !.validation_message = <<"Fix verified successfully">>]
                 IN inv' = [inv EXCEPT ![i] =
                       [@ EXCEPT !.pc = "success", !.t = t1,
                                 !.ran = Append(@, call),
                                 !.todo = Within("verify_fix",
                                            <<LogOp("info", "Test passed - fix verified!", t),
                                              SaveOp(t1)>>)]]
            ELSE LET t1 == [t EXCEPT !.fix_status = "failed",
                                     !.validation_message =
                                         <<"Fix did not resolve the issue">>]
                     nx == AfterFailedFix(t1)
                 IN inv' = [inv EXCEPT ![i] =
                       [@ EXCEPT !.pc = nx.pc, !.ret = nx.ret, !.t = nx.t,
                                 !.ran = Append(@, call),
                                 !.todo = Within("verify_fix",
                                            <<LogOp("WARNING",
                                                    "Test still fails after fix - fix did not work", t),
                                              SaveOp(t1)>>)
                                          \o nx.todo]]
    /\ Scheduled(i)
    /\ UNCHANGED <<task, tasklog, pulls, ninv>>
    /\ UNCHANGED <<svars, pvars>>

\* verify_and_fix_vulnerability after the three steps succeeded:
\* task.save(), then the log entry.
CompletedStatements(t) ==
    <<SaveOp(t), LogOp("info", "Verification workflow completed successfully", t)>>

\* verify_and_fix_vulnerability after the three steps succeeded.
MarkCompleted(i) ==
    /\ At(i, "success")
    /\ LET t1 == [inv[i].t EXCEPT !.status = "completed", !.verified_at = TRUE]
       IN inv' = [inv EXCEPT ![i] =
                    [@ EXCEPT !.pc = IF inv[i].create_pr THEN "create_pr" ELSE "returned",
                              !.ret = IF inv[i].create_pr THEN @ ELSE "True",
                              !.t = t1,
                              !.todo = CompletedStatements(t1)]]
    /\ Scheduled(i)
    /\ UNCHANGED <<task, tasklog, pulls, ninv, tmp>>
    /\ UNCHANGED <<svars, pvars, nfault>>

PrStages == <<"auth", "branch", "commit", "pr">>

\* Log entries _create_github_pr writes before the stage numbered k
\* raises (k = 5: no stage raises) and before the pull request is opened.
PrProgressLog(k, t) ==
    <<LogOp("info", "Creating Github pull request...", t)>>
    \o (IF k > 2 THEN <<LogOp("info", "Created branch", t)>> ELSE <<>>)
    \o (IF k > 3 THEN <<LogOp("info", "Committed fix to branch", t)>> ELSE <<>>)

\* A pipeline that marks the task before the pull request is opened and
\* whose failure handler leaves the status alone.
PrOutcomeMarkedBeforeOpening(t, failedAt) ==
    IF failedAt >= Len(PrStages)
      THEN [t EXCEPT !.status = "pr_created"]
      ELSE [t EXCEPT !.validation_message = Append(@, "PR creation failed")]

\* The task _create_github_pr saves: 'pr_created' is assigned after
\* create_pull_request returned; the handler of any stage's exception
\* stores 'completed' and the failure text.
PrOutcome(t, failedAt) ==
    IF failedAt > Len(PrStages)
      THEN [t EXCEPT !.status = "pr_created"]
      ELSE [t EXCEPT !.status = "completed",
                     !.validation_message = Append(@, "PR creation failed")]

\* The "except Exception" clause of _create_github_pr, for the object t:
\* its log entry and its save, which stand in the try block of the caller.
PrHandlerStatements(t) ==
    Within("pr_call", <<LogOp("error", "Failed to create PR", t),
                        SaveOp(PrOutcome(t, 1))>>)

\* What the caller does with the exception _create_github_pr re-raises:
\* verify_and_fix_vulnerability logs it once more,
\* create_prs_for_repository prints it.
PrCallerStatements(via, t) ==
    IF via = "prs" THEN <<>> ELSE <<LogOp("error", "Failed to create PR", t)>>

\* _create_github_pr and what its caller does with the exception it
\* re-raises.  failedAt is the number of the pipeline stage that raised,
\* 5 when none did.
CreateGithubPr(i, failedAt) ==
    /\ At(i, "create_pr")
    /\ LET t == inv[i].t
           t1 == PrOutcome(t, failedAt)
           opened == failedAt > Len(PrStages)
           progress == PrProgressLog(failedAt, t)
       IN inv' = [inv EXCEPT ![i] =
                    [@ EXCEPT !.pc = "returned",
                              !.ret = IF inv[i].via = "prs" THEN "none" ELSE "True",
                              !.t = t1,
                              !.result = IF opened THEN "opened" ELSE "pipeline_failed",
                              !.todo =
                                 Within("pr_call", <<Head(progress)>>)
                                 \o Within("create_pr", Tail(progress))
                                 \o (IF opened
                                       THEN Within("create_pr",
                                              <<PullOp(t), SaveOp(t1),
                                                LogOp("info", "Pull request created", t1)>>)
                                       ELSE Within("pr_call",
                                              <<LogOp("error", "Failed to create PR", t),
                                                SaveOp(t1)>>)
                                            \o PrCallerStatements(inv[i].via, t1))]]
    /\ Scheduled(i)
    /\ UNCHANGED <<task, tasklog, pulls, ninv, tmp>>
    /\ UNCHANGED <<svars, pvars, nfault>>

\* The caller after verify_and_fix_vulnerability returned.  The view
\* answers with the fields of the object.  process_single_task_async
\* builds its result: on success it reads task.pr_url, an attribute the
\* Task model does not have and only _create_github_pr sets, so the read
\* raises AttributeError unless this call opened a pull request.
Respond(i) ==
    /\ At(i, "returned")
    /\ inv' = [inv EXCEPT ![i] =
                 IF @.via = "celery" /\ @.ret = "True" /\ @.pr_url = ""
                   THEN [@ EXCEPT !.pc = "handler"]
                   ELSE [@ EXCEPT !.pc = "done",
                                  !.result = IF inv[i].via = "prs" THEN @ ELSE "answered"]]
    /\ Scheduled(i)
    /\ UNCHANGED <<task, tasklog, pulls, ninv, tmp>>
    /\ UNCHANGED <<svars, pvars, nfault>>

\* process_single_task_async, "except Exception": load the task again
\* into an object of the handler's own, store status 'failed' and the
\* error text (inside a try block of its own, whose handler ignores the
\* exception), re-raise.
ProcessingErrorHandler(i) ==
    /\ At(i, "handler")
    /\ LET t1 == [task EXCEPT !.status = "failed",
                              !.validation_message = <<"Processing error">>]
       IN inv' = [inv EXCEPT ![i] =
                    [@ EXCEPT !.pc = "done", !.result = "raised",
                              !.todo = Within("handler", <<SaveOp(t1)>>)]]
    /\ Scheduled(i)
    /\ UNCHANGED <<task, tasklog, pulls, ninv, tmp>>
    /\ UNCHANGED <<svars, pvars, nfault>>

\* The next statement of request i, an insert into TaskLog or task.save(),
\* raises.  Inside the try block of a workflow method the method's handler
\* takes over with the object as it is at that statement; the exception
\* of a statement of _create_github_pr's handler, or of its first log
\* entry, reaches the caller of _create_github_pr; any other leaves
\* verify_and_fix_vulnerability, for the view to answer with an error and
\* for process_single_task_async to handle.
Raise(i) ==
    /\ inv[i].todo # <<>>
    /\ Head(inv[i].todo).op \in {"log", "save"}
    /\ Raising(TRUE)
    /\ LET blk == Head(inv[i].todo).try
           m == Head(inv[i].todo).row
       IN inv' = [inv EXCEPT ![i] =
            CASE blk \in {"generate_test", "verify_vulnerability", "generate_fix"} ->
                   [@ EXCEPT !.pc = "returned", !.ret = "False",
                             !.t = Handler(blk, m).t,
                             !.ran = IF blk = "verify_vulnerability"
                                       THEN [@ EXCEPT ![Len(@)].ok = FALSE] ELSE @,
                             !.todo = HandlerStatements(blk, m)]
              [] blk = "verify_fix" ->
                   LET nx == AfterFailedFix(Handler(blk, m).t)
                   IN [@ EXCEPT !.pc = nx.pc, !.ret = nx.ret, !.t = nx.t,
                                !.ran = [@ EXCEPT ![Len(@)].ok = FALSE],
                                !.todo = HandlerStatements(blk, m) \o nx.todo]
              [] blk = "create_pr" ->
                   [@ EXCEPT !.pc = "returned",
                             !.t = PrOutcome(m, 1),
                             !.result = "statement_failed",
                             !.todo = PrHandlerStatements(m)
                                      \o PrCallerStatements(inv[i].via, PrOutcome(m, 1))]
              [] blk = "pr_call" ->
                   [@ EXCEPT !.pc = "returned",
                             !.t = m,
                             !.result = IF Head(inv[i].todo).msg =
                                            LogEntry("info", "Creating Github pull request...")
                                          THEN "statement_failed" ELSE @,
                             !.todo = PrCallerStatements(inv[i].via, m)]
              [] blk = "handler" ->
                   [@ EXCEPT !.pc = "done", !.todo = <<>>]
              [] OTHER ->
                   IF inv[i].via = "celery"
                     THEN [@ EXCEPT !.pc = "handler", !.ret = "raised", !.t = m,
                                    !.todo = <<>>]
                     ELSE [@ EXCEPT !.pc = "done", !.ret = "raised",
                                    !.result = "raised", !.t = m, !.todo = <<>>]]
    /\ Scheduled(i)
    /\ UNCHANGED <<task, tasklog, pulls, ninv, tmp>>
    /\ UNCHANGED <<svars, pvars>>

\* create_prs_for_repository up to "if not verified_tasks.exists()": the
\* request goes on when the table holds a task with fix_status 'verified'
\* and no pull request; no task is loaded yet.
CreatePrsForRepository(i) ==
    /\ i = ninv + 1
    /\ ninv + nfault < MaxInvocations
    /\ inv[i].pc = "idle"
    /\ task.fix_status = "verified"
    /\ pulls = 0
    /\ ninv' = ninv + 1
    /\ inv' = [inv EXCEPT ![i] =
                 [IdleInvocation EXCEPT !.pc = "prs_construct", !.via = "prs",
                                        !.create_pr = TRUE]]
    /\ Scheduled(i)
    /\ UNCHANGED <<task, tasklog, pulls, tmp>>
    /\ UNCHANGED <<svars, pvars, nfault>>

\* create_prs_for_repository, "orchestrator = VerificationOrchestrator()",
\* outside any try block: TestRunner() waits for "pytest --version" and
\* raises RuntimeError when pytest cannot be run (ok = FALSE).
CreatePrsConstruct(i, ok) ==
    /\ At(i, "prs_construct")
    /\ inv' = [inv EXCEPT ![i] =
                 IF ok
                   THEN [@ EXCEPT !.pc = "prs_load"]
                   ELSE [@ EXCEPT !.pc = "done", !.ret = "raised",
                                  !.result = "raised"]]
    /\ Scheduled(i)
    /\ UNCHANGED <<task, tasklog, pulls, ninv, tmp>>
    /\ UNCHANGED <<svars, pvars, nfault>>

\* create_prs_for_repository, "for task in verified_tasks": the query is
\* run again and loads the tasks that are verified and without a pull
\* request now, which are handed to _create_github_pr one by one; with
\* none left the view answers 'Created 0 pull requests'.
CreatePrsLoad(i) ==
    /\ At(i, "prs_load")
    /\ inv' = [inv EXCEPT ![i] =
                 IF task.fix_status = "verified" /\ pulls = 0
                   THEN [@ EXCEPT !.pc = "create_pr", !.t = task, !.t0 = task]
                   ELSE [@ EXCEPT !.pc = "done", !.result = "created_0"]]
    /\ Scheduled(i)
    /\ UNCHANGED <<task, tasklog, pulls, ninv, tmp>>
    /\ UNCHANGED <<svars, pvars, nfault>>

\* The steps of the requests that run the workflow.
ONext ==
    \E i \in Invocations :
        \/ \E via \in {"direct", "celery"}, cp \in BOOLEAN : Invoke(i, via, cp)
        \/ \E ok \in BOOLEAN : Construct(i, ok)
        \/ \E out \in TestCodes \cup {"", "raise"} : GenerateTest(i, out)
        \/ EnterVerifyVulnerabilityExists(i)
        \/ \E ending \in TestEndings, unlinked \in BOOLEAN :
              VerifyVulnerabilityExists(i, ending, unlinked)
        \/ \E out \in FixCodes(inv[i].t) \cup {"", "raise"} : GenerateFix(i, out)
        \/ FixLoopExit(i)
        \/ EnterVerifyFix(i)
        \/ \E ending \in WithFixEndings, removed \in BOOLEAN :
              VerifyFix(i, ending, removed)
        \/ MarkCompleted(i)
        \/ \E k \in 1..(Len(PrStages) + 1) : CreateGithubPr(i, k)
        \/ Respond(i)
        \/ ProcessingErrorHandler(i)
        \/ Log(i)
        \/ Save(i)
        \/ RecordPullRequest(i)
        \/ Raise(i)

\* The same together with the pull-request view.
PNext ==
    \/ ONext
    \/ \E i \in Invocations : CreatePrsForRepository(i)
    \/ \E i \in Invocations, ok \in BOOLEAN : CreatePrsConstruct(i, ok)
    \/ \E i \in Invocations : CreatePrsLoad(i)

----------------------------------------------------------------------------
(* Checkpointed analysis runner *)

\* @shared_task(bind=True, max_retries=3)
CeleryMaxRetries == 3

Workers == {1, 2}

\* The candidate files, in the order get_repo_files returns them.
Files == [i \in 1..NumFiles |-> "f" \o ToString(i)]

Paths == {Files[i] : i \in 1..NumFiles}

\* What happens inside code_analyzer.analyze_file for one file.
\*   "clean"      Gemini reports no vulnerability, or none that passes
\*                validation;
\*   "vulnerable" Gemini reports a vulnerability that passes validation;
\*   "rate_limit" GeminiRateLimitError is raised;
\*   "error"      any other exception is raised.
AnalyzeOutcomes == {"clean", "vulnerable", "rate_limit", "error"}

\* An analyzer that stores one Task row for a reported vulnerability and
\* returns it.
AnalyzeFileResultStoring(out) ==
    [raised |-> out \in {"rate_limit", "error"},
     tasks |-> IF out = "vulnerable" THEN 1 ELSE 0]

\* CodeAnalyzer.analyze_file: whether it raises, and the number of Task rows
\* it has stored and returns.  It returns the empty list for a clean file.
\* For a reported vulnerability it calls create_and_save_tasks with three
\* arguments; the function takes two, and the TypeError is re-raised before
\* any Task row is stored.  Every other exception is re-raised as well.
AnalyzeFileResult(out) ==
    [raised |-> out # "clean", tasks |-> 0]

InSeq(x, sq) == \E i \in 1..Len(sq) : sq[i] = x

\* "if filepath in processed_files"
AlreadyProcessed(path, processed) == InSeq(path, processed)

\* AnalysisSession.objects.create(status='running', started_at=now, ...)
NewSession ==
    [status |-> "running", total_files |-> 0, files_analyzed |-> 0,
     files_failed |-> 0, vulnerabilities_found |-> 0, task_created |-> 0,
     completed_at |-> FALSE, last_checkpoint_at |-> FALSE,
     error_message |-> "", retry_count |-> 0]

\* A Repository row as create_repository stores it.
NewRepository == [status |-> "idle", analysis_progress |-> ""]

\* analysis_progress as AnalyzerService.analyze_repository words it when the
\* rate limit is hit at file index of the list.
RateLimited(index) ==
    "Rate limit exceeded at " \o ToString(index - 1) \o "/"
        \o ToString(NumFiles) \o " files"

\* Task rows of one path: created before session.started_at, and since.
NoRows == [old |-> 0, new |-> 0]

IdleWorker ==
    [pc |-> "idle", attempt |-> 0,
     \* the session_id argument is given (TRUE) or None (FALSE)
     session_id |-> TRUE,
     \* the Repository and AnalysisSession objects the task holds
     repository |-> NewRepository, sess |-> NewSession,
     processed |-> <<>>, start_index |-> 0, counter |-> 0,
     index |-> 0, all_task |-> 0, actual |-> 0,
     \* record of the run, not read by the code
     has_ckpt |-> FALSE, resumed |-> <<>>, analyzed |-> {},
     new_ckpts |-> 0, rl_index |-> -1, last_out |-> "none",
     created |-> 0, result |-> "none"]

IdleView == [pc |-> "idle", sess |-> NewSession]

\* A call of analyze_repository that has not begun: repository is the
\* object it loads, index the position in its loop.
IdleSync == [pc |-> "idle", repository |-> NewRepository, index |-> 0,
             all_tasks |-> 0, result |-> "none"]

\* State after create_repository stored a repository, created the session and
\* queued the task.
RInit ==
    /\ session = NewSession
    /\ checkpoints = {}
    /\ dbtasks = [p \in Paths |-> NoRows]
    /\ repo = NewRepository
    /\ wk = [w \in Workers |-> IF w = 1 THEN [IdleWorker EXCEPT !.pc = "queued"]
                                          ELSE IdleWorker]
    /\ view = IdleView
    /\ nresume = 0
    /\ nfault = 0
    /\ nraise = 0
    /\ sync = IdleSync

\* The session row after resume_session accepted a request: status
\* 'running', retry_count one higher, error_message cleared.
ResumedSession == [NewSession EXCEPT !.retry_count = 1]

\* State after resume_session accepted a request for the session while the
\* run queued by create_repository had not started, and the run the request
\* queued has loaded the session and found no checkpoint to resume from.
XInit ==
    /\ session = ResumedSession
    /\ checkpoints = {}
    /\ dbtasks = [p \in Paths |-> NoRows]
    /\ repo = NewRepository
    /\ wk = [w \in Workers |->
               IF w = 1 THEN [IdleWorker EXCEPT !.pc = "queued"]
                        ELSE [IdleWorker EXCEPT !.pc = "fetch",
                                                !.sess = ResumedSession]]
    /\ view = IdleView
    /\ nresume = 1
    /\ nfault = 0
    /\ nraise = 0
    /\ sync = IdleSync

\* The session row before a task that was queued without session_id has
\* created it.
NoSession == [NewSession EXCEPT !.status = "absent"]

\* The Repository row of an id that is not in the table.
NoRepository == [NewRepository EXCEPT !.status = "absent"]

\* State after analyze_repository_async was queued: for a repository that
\* exists or for an id that does not, with the session_id of an existing
\* session or with none, the repository holding a Task row of an earlier
\* analysis or none.
DInit ==
    /\ \E sid \in BOOLEAN :
          /\ session = (IF sid THEN NewSession ELSE NoSession)
          /\ wk = [w \in Workers |->
                     IF w = 1 THEN [IdleWorker EXCEPT !.pc = "queued",
                                                      !.session_id = sid]
                              ELSE IdleWorker]
    /\ \E present \in BOOLEAN :
          repo = (IF present THEN NewRepository ELSE NoRepository)
    /\ \E earlier \in 0..1 :
          dbtasks = [p \in Paths |->
                       IF p = Files[1] THEN [old |-> earlier, new |-> 0]
                                       ELSE NoRows]
    /\ checkpoints = {}
    /\ view = IdleView
    /\ nresume = 0
    /\ nfault = 0
    /\ nraise = 0
    /\ sync = IdleSync

\* session.checkpoints.first() under Meta.ordering = ['-checkpoint_number'].
LatestCheckpoint(cps) ==
    CHOOSE c \in cps : \A d \in cps : d.checkpoint_number <= c.checkpoint_number

\* A run that numbers its checkpoints from 1 whatever the session holds.
StartCounterFromZero(cps) == 0

\* checkpoint_counter at the start of a run: the number of the checkpoint
\* it resumes from, 0 without one.
StartCounter(cps) ==
    IF cps = {} THEN 0 ELSE LatestCheckpoint(cps).checkpoint_number

RECURSIVE SumUpTo(_, _)
SumUpTo(f, n) == IF n = 0 THEN 0 ELSE f[Files[n]].new + SumUpTo(f, n - 1)

\* Task.objects.filter(repository=..., created_at__gte=started_at).count()
ActualTasksCount(db) == SumUpTo(db, NumFiles)

\* Worker w is between the first and the last statement of a run.
Running(w) == w # 0 /\ wk[w].pc \notin {"idle", "queued", "done"}

\* Worker w takes the step: between two steps of a run of another worker
\* only while preemptions remain.
Takes(w) ==
    /\ (turn \notin {0, w} /\ Running(turn)) => npre < MaxPreemptions
    /\ npre' = IF turn \notin {0, w} /\ Running(turn) THEN npre + 1 ELSE npre
    /\ turn' = w

\* A statement of this step of worker w raises (the fetch from GitHub, an
\* insert into the log table, a broadcast) unless ok.
Fault(w, ok) ==
    /\ ok \/ nfault < MaxFaults + (IF nresume = 0 THEN wk[w].attempt ELSE 0)
    /\ nfault' = IF ok THEN nfault ELSE nfault + 1

\* The task returned: its locals are gone.
Finished(me, result) ==
    [IdleWorker EXCEPT !.pc = "done", !.attempt = me.attempt,
                       !.session_id = me.session_id,
                       !.created = me.created, !.result = result]

\* raise self.retry(exc=exc, countdown=60): while retries remain the task
\* is queued again with the same arguments; once max_retries is used up
\* retry raises exc itself, which "except self.MaxRetriesExceededError"
\* does not catch, and the exception leaves the task.
Retry(me) ==
    IF me.attempt < CeleryMaxRetries
      THEN [Finished(me, "none") EXCEPT !.pc = "queued", !.attempt = @ + 1]
      ELSE Finished(me, "raised")

\* analyze_repository_async, Repository.objects.get(id=repository_id); for
\* an id without a row the task returns status 'failed' and is not retried.
LoadRepository(w) ==
    /\ wk[w].pc = "queued"
    /\ UNCHANGED <<tvars, pvars, nfault>>
    /\ Takes(w)
    /\ wk' = [wk EXCEPT ![w] =
                IF repo.status = "absent"
                  THEN Finished(@, "not_found")
                  ELSE [@ EXCEPT !.pc = "session", !.repository = repo]]
    /\ UNCHANGED <<session, checkpoints, dbtasks, repo, view, nresume, nraise, sync>>

\* analyze_repository_async, "if session_id": AnalysisSession.objects.get,
\* else AnalysisSession.objects.create with started_at = now, after which
\* every Task row there is was created before started_at.
LoadSession(w) ==
    /\ wk[w].pc = "session"
    /\ UNCHANGED <<tvars, pvars, nfault>>
    /\ Takes(w)
    /\ IF wk[w].session_id
         THEN /\ wk' = [wk EXCEPT ![w] = [@ EXCEPT !.pc = "start",
                                                   !.sess = session]]
              /\ UNCHANGED <<session, checkpoints, dbtasks>>
         ELSE /\ session' = NewSession
              /\ checkpoints' = {}
              /\ dbtasks' = [p \in Paths |->
                               [old |-> dbtasks[p].old + dbtasks[p].new,
                                new |-> 0]]
              /\ wk' = [wk EXCEPT ![w] = [@ EXCEPT !.pc = "start",
                                                   !.sess = NewSession,
                                                   !.created = @ + 1]]
    /\ UNCHANGED <<repo, view, nresume, nraise, sync>>

\* AnalyzerService(), then analyze_with_checkpoints down to the resume
\* point: the 'Starting analysis' log, session.checkpoints.first(), the
\* 'Resuming' and 'Fetching' logs.  logged = FALSE: the constructor or one
\* of the log inserts raised, which leaves the runner.
ReadCheckpoint(w, logged) ==
    /\ wk[w].pc = "start"
    /\ UNCHANGED <<tvars, pvars>>
    /\ Takes(w)
    /\ Fault(w, logged)
    /\ LET has == checkpoints # {}
           ck == LatestCheckpoint(checkpoints)
       IN wk' = [wk EXCEPT ![w] =
                   IF logged
                     THEN [@ EXCEPT !.pc = "fetch",
                                    !.processed = IF has THEN ck.files_processed ELSE <<>>,
                                    !.start_index = IF has THEN ck.last_file_index + 1 ELSE 0,
                                    !.counter = StartCounter(checkpoints),
                                    !.index = 0,
                                    !.all_task = 0,
                                    !.has_ckpt = has,
                                    !.resumed = IF has THEN ck.files_processed ELSE <<>>]
                     ELSE [@ EXCEPT !.pc = "failed"]]
    /\ UNCHANGED <<session, checkpoints, dbtasks, repo, view, nresume, nraise, sync>>

\* get_repo_files, then session.total_files = len(files); session.save(),
\* then the 'Found n files' and 'Starting file analysis' logs.
\*   "raise"     the fetch raised, which leaves the runner;
\*   "log_fault" a log insert after the save raised, which leaves the runner.
FetchFiles(w, out) ==
    /\ wk[w].pc = "fetch"
    /\ UNCHANGED <<tvars, pvars>>
    /\ Takes(w)
    /\ Fault(w, out = "ok")
    /\ IF out = "raise"
         THEN /\ session' = session
              /\ wk' = [wk EXCEPT ![w] = [@ EXCEPT !.pc = "failed"]]
         ELSE LET s1 == [wk[w].sess EXCEPT !.total_files = NumFiles]
              IN /\ session' = s1
                 /\ wk' = [wk EXCEPT ![w] =
                             [@ EXCEPT !.sess = s1,
                                       !.pc = IF out = "ok" THEN "loop"
                                                            ELSE "failed"]]
    /\ UNCHANGED <<checkpoints, dbtasks, repo, view, nresume, nraise, sync>>

AtFile(w) == wk[w].pc = "loop" /\ wk[w].index < NumFiles

\* Loop body, "if filepath in processed_files: continue".
SkipFile(w) ==
    /\ AtFile(w)
    /\ AlreadyProcessed(Files[wk[w].index + 1], wk[w].processed)
    /\ UNCHANGED <<tvars, pvars, nfault>>
    /\ Takes(w)
    /\ wk' = [wk EXCEPT ![w] = [@ EXCEPT !.index = @ + 1]]
    /\ UNCHANGED <<session, checkpoints, dbtasks, repo, view, nresume, nraise, sync>>

\* Loop body, create_session_log ahead of the try block raises: the
\* exception leaves the runner between two files.
ScanLogFault(w) ==
    /\ AtFile(w)
    /\ ~AlreadyProcessed(Files[wk[w].index + 1], wk[w].processed)
    /\ UNCHANGED <<tvars, pvars>>
    /\ Takes(w)
    /\ Fault(w, FALSE)
    /\ wk' = [wk EXCEPT ![w] = [@ EXCEPT !.pc = "failed"]]
    /\ UNCHANGED <<session, checkpoints, dbtasks, repo, view, nresume, nraise, sync>>

\* processed_files after the analyzer call for path: the append follows the
\* call inside the try block, so it happens only when the call returned.
ProcessedAfter(processed, path, ok) ==
    IF ok THEN Append(processed, path) ELSE processed

\* Loop body for a file that is not skipped, from the 'Scanning' log to
\* the result log: analyze_file, all_task.extend, processed_files.append,
\* session.vulnerabilities_found when tasks came back, create_session_log.
\* logged = FALSE: the log insert that follows a call that returned raised,
\* inside the try block.
AnalyzeFile(w, out, logged) ==
    /\ AtFile(w)
    /\ ~AlreadyProcessed(Files[wk[w].index + 1], wk[w].processed)
    /\ AnalyzeFileResult(out).raised => (logged /\ nraise < MaxRaises)
    /\ nraise' = IF AnalyzeFileResult(out).raised THEN nraise + 1 ELSE nraise
    /\ UNCHANGED <<tvars, pvars>>
    /\ Takes(w)
    /\ Fault(w, logged)
    /\ LET me == wk[w]
           index == me.index
           path == Files[index + 1]
           returned == ~AnalyzeFileResult(out).raised
           n == AnalyzeFileResult(out).tasks
           all1 == IF returned THEN me.all_task + n ELSE me.all_task
       IN /\ dbtasks' = [dbtasks EXCEPT ![path].new = @ + n]
          /\ wk' = [wk EXCEPT ![w] =
                     [@ EXCEPT
                        !.all_task = all1,
                        !.processed = ProcessedAfter(@, path, returned),
                        !.sess = IF returned /\ n > 0
                                   THEN [@ EXCEPT !.vulnerabilities_found = all1]
                                   ELSE @,
                        !.analyzed = @ \cup {index},
                        !.last_out = out,
                        !.rl_index = IF out = "rate_limit" /\ @ = -1
                                       THEN index ELSE @,
                        !.pc = IF returned /\ logged
                                 THEN "progress" ELSE "file_failed"]]
    /\ UNCHANGED <<session, checkpoints, repo, view, nresume, sync>>

\* Loop body after the analyser returned: files_analyzed = index + 1,
\* last_checkpoint_at = now, session.save(), broadcast_progress_update.
\* delivered = FALSE: the broadcast raised, inside the try block.
SaveProgress(w, delivered) ==
    /\ wk[w].pc = "progress"
    /\ UNCHANGED <<tvars, pvars>>
    /\ Takes(w)
    /\ Fault(w, delivered)
    /\ LET index == wk[w].index
           s1 == [wk[w].sess EXCEPT !.files_analyzed = index + 1,
                                    !.last_checkpoint_at = TRUE]
           due == (index + 1) % CheckpointInterval = 0
       IN /\ session' = s1
          /\ wk' = [wk EXCEPT ![w] =
                     [@ EXCEPT !.sess = s1,
                               !.pc = IF ~delivered THEN "file_failed"
                                      ELSE IF due THEN "checkpoint" ELSE "loop",
                               !.index = IF delivered /\ ~due THEN @ + 1 ELSE @]]
    /\ UNCHANGED <<checkpoints, dbtasks, repo, view, nresume, nraise, sync>>

\* The checkpoint row worker w is about to write already exists:
\* unique_together (session, checkpoint_number), CheckPoint.objects.create
\* raises.
CheckpointWriteFails(w) ==
    \E c \in checkpoints : c.checkpoint_number = wk[w].counter + 1

\* Loop body, "if (index + 1) % checkpoint_interval == 0":
\* checkpoint_counter += 1, CheckPoint.objects.create, the checkpoint log.
\* logged = FALSE: the log insert raised, inside the try block, after the
\* row was stored.
WriteCheckpoint(w, logged) ==
    /\ wk[w].pc = "checkpoint"
    /\ UNCHANGED <<tvars, pvars>>
    /\ Takes(w)
    /\ Fault(w, logged)
    /\ LET me == wk[w]
           num == me.counter + 1
           clash == CheckpointWriteFails(w)
       IN /\ checkpoints' =
               IF clash THEN checkpoints
               ELSE checkpoints \cup
                      {[checkpoint_number |-> num,
                        last_file_index |-> me.index,
                        files_processed |-> me.processed,
                        task_created |-> me.all_task]}
          /\ wk' = [wk EXCEPT ![w] =
                     [@ EXCEPT !.counter = num,
                               !.new_ckpts = IF clash THEN @ ELSE @ + 1,
                               !.pc = IF clash \/ ~logged THEN "file_failed"
                                                          ELSE "loop",
                               !.index = IF clash \/ ~logged THEN @ ELSE @ + 1]]
    /\ UNCHANGED <<session, dbtasks, repo, view, nresume, nraise, sync>>

\* Loop body, "except Exception": session.files_failed += 1.
RecordFileFailure(s) == [s EXCEPT !.files_failed = @ + 1]

\* Loop body, "except Exception": the error log, files_failed += 1,
\* session.save(), continue.  logged = FALSE: the error log raised, which
\* leaves the runner.
FileFailed(w, logged) ==
    /\ wk[w].pc = "file_failed"
    /\ UNCHANGED <<tvars, pvars>>
    /\ Takes(w)
    /\ Fault(w, logged)
    /\ IF logged
         THEN LET s1 == RecordFileFailure(wk[w].sess)
              IN /\ session' = s1
                 /\ wk' = [wk EXCEPT ![w] = [@ EXCEPT !.sess = s1,
                                                      !.pc = "loop",
                                                      !.index = @ + 1]]
         ELSE /\ session' = session
              /\ wk' = [wk EXCEPT ![w] = [@ EXCEPT !.pc = "failed"]]
    /\ UNCHANGED <<checkpoints, dbtasks, repo, view, nresume, nraise, sync>>

\* After the loop: repository.status = 'completed'; repository.save().
MarkRepositoryCompleted(w) ==
    /\ wk[w].pc = "loop"
    /\ wk[w].index = NumFiles
    /\ UNCHANGED <<tvars, pvars, nfault>>
    /\ Takes(w)
    /\ LET r1 == [wk[w].repository EXCEPT !.status = "completed"]
       IN /\ repo' = r1
          /\ wk' = [wk EXCEPT ![w] = [@ EXCEPT !.repository = r1,
                                               !.pc = "count"]]
    /\ UNCHANGED <<session, checkpoints, dbtasks, view, nresume, nraise, sync>>

\* After the loop: the count of the Task rows created since started_at,
\* the closing log and the closing broadcast; the runner returns the count.
\* logged = FALSE: the log insert or the broadcast raised, which leaves the
\* runner.
CountTasks(w, logged) ==
    /\ wk[w].pc = "count"
    /\ UNCHANGED <<tvars, pvars>>
    /\ Takes(w)
    /\ Fault(w, logged)
    /\ wk' = [wk EXCEPT ![w] =
                [@ EXCEPT !.actual = ActualTasksCount(dbtasks),
                          !.pc = IF logged THEN "finish" ELSE "failed"]]
    /\ UNCHANGED <<session, checkpoints, dbtasks, repo, view, nresume, nraise, sync>>

\* analyze_repository_async after the runner returned: status 'completed',
\* completed_at, the two counts, session.save().
SaveSessionCompleted(w) ==
    /\ wk[w].pc = "finish"
    /\ UNCHANGED <<tvars, pvars, nfault>>
    /\ Takes(w)
    /\ LET s1 == [wk[w].sess EXCEPT !.status = "completed",
                                    !.completed_at = TRUE,
                                    !.vulnerabilities_found = wk[w].actual,
                                    !.task_created = wk[w].actual]
       IN /\ session' = s1
          /\ wk' = [wk EXCEPT ![w] = [@ EXCEPT !.sess = s1,
                                               !.pc = "finish_repo"]]
    /\ UNCHANGED <<checkpoints, dbtasks, repo, view, nresume, nraise, sync>>

\* analyze_repository_async, last statements: repo.status = 'completed',
\* repo.save(), return status 'completed'.
SaveRepositoryCompleted(w) ==
    /\ wk[w].pc = "finish_repo"
    /\ UNCHANGED <<tvars, pvars, nfault>>
    /\ Takes(w)
    /\ LET r1 == [wk[w].repository EXCEPT !.status = "completed"]
       IN /\ repo' = r1
          /\ wk' = [wk EXCEPT ![w] = Finished(@, "completed")]
    /\ UNCHANGED <<session, checkpoints, dbtasks, view, nresume, nraise, sync>>

\* analyze_repository_async, "except Exception": with a session_id the
\* handler reloads the session; without one it goes on to the retry.
FailureHandler(w) ==
    /\ wk[w].pc = "failed"
    /\ UNCHANGED <<tvars, pvars, nfault>>
    /\ Takes(w)
    /\ wk' = [wk EXCEPT ![w] =
                IF wk[w].session_id
                  THEN [@ EXCEPT !.pc = "mark_failed", !.sess = session]
                  ELSE Retry(@)]
    /\ UNCHANGED <<session, checkpoints, dbtasks, repo, view, nresume, nraise, sync>>

\* The "if session_id:" block of the handler after the reload.
MarkSessionFailed(s) ==
    [s EXCEPT !.status = "failed",
              !.error_message = "error",
              !.retry_count = @ + 1]

\* The handler with a session_id, after the reload: status 'failed',
\* error_message, retry_count += 1, session.save(); then the retry.
FailureHandlerSave(w) ==
    /\ wk[w].pc = "mark_failed"
    /\ UNCHANGED <<tvars, pvars, nfault>>
    /\ Takes(w)
    /\ LET s1 == MarkSessionFailed(wk[w].sess)
       IN /\ session' = s1
          /\ wk' = [wk EXCEPT ![w] = Retry([@ EXCEPT !.sess = s1])]
    /\ UNCHANGED <<checkpoints, dbtasks, repo, view, nresume, nraise, sync>>

FreeWorker == CHOOSE w \in Workers :
                  /\ wk[w].pc \in {"idle", "done"}
                  /\ \A v \in Workers : wk[v].pc \in {"idle", "done"} => w <= v

\* resume_session up to analyze_repository_async.delay(...): read the
\* session, check that it may be resumed, queue a run.  stale says whether
\* last_checkpoint_at is at least 300 seconds old.
ResumeSessionDispatch(stale) ==
    /\ view.pc = "idle"
    /\ nresume < MaxResumes
    /\ nfault <= MaxFaults
    /\ \E w \in Workers : wk[w].pc \in {"idle", "done"}
    /\ session.status \in {"failed", "paused", "running"}
    /\ ~(session.status = "running" /\ session.last_checkpoint_at /\ ~stale)
    /\ UNCHANGED <<tvars, pvars, nfault>>
    /\ UNCHANGED <<turn, npre>>
    /\ wk' = [wk EXCEPT ![FreeWorker] = [IdleWorker EXCEPT !.pc = "queued"]]
    /\ view' = [pc |-> "save", sess |-> session]
    /\ nresume' = nresume + 1
    /\ UNCHANGED <<session, checkpoints, dbtasks, repo, nraise, sync>>

\* resume_session after the dispatch: status = 'running', retry_count += 1,
\* error_message = '', session.save().
ResumeSessionSave ==
    /\ view.pc = "save"
    /\ UNCHANGED <<tvars, pvars, nfault>>
    /\ UNCHANGED <<turn, npre>>
    /\ session' = [view.sess EXCEPT !.status = "running",
                                    !.retry_count = @ + 1,
                                    !.error_message = ""]
    /\ view' = IdleView
    /\ UNCHANGED <<checkpoints, dbtasks, repo, wk, nresume, nraise, sync>>

\* The steps of the run of worker w, with every outcome of the analyzer and
\* every fault of logging and broadcasting.
Run(w) ==
    \/ LoadRepository(w)
    \/ LoadSession(w)
    \/ \E logged \in BOOLEAN : ReadCheckpoint(w, logged)
    \/ \E out \in {"ok", "raise", "log_fault"} : FetchFiles(w, out)
    \/ SkipFile(w)
    \/ ScanLogFault(w)
    \/ \E out \in AnalyzeOutcomes, logged \in BOOLEAN : AnalyzeFile(w, out, logged)
    \/ \E delivered \in BOOLEAN : SaveProgress(w, delivered)
    \/ \E logged \in BOOLEAN : WriteCheckpoint(w, logged)
    \/ \E logged \in BOOLEAN : FileFailed(w, logged)
    \/ MarkRepositoryCompleted(w)
    \/ \E logged \in BOOLEAN : CountTasks(w, logged)
    \/ SaveSessionCompleted(w)
    \/ SaveRepositoryCompleted(w)
    \/ FailureHandler(w)
    \/ FailureHandlerSave(w)

\* Runs of the one task queued by create_repository, with its retries.
RNext == Run(1)

\* The same runs together with resume_session requests, each of which
\* queues a further run of the session.
CNext ==
    \/ \E w \in Workers : Run(w)
    \/ \E stale \in BOOLEAN : ResumeSessionDispatch(stale)
    \/ ResumeSessionSave

\* The runs of a session that has two of them queued or under way.
XNext == \E w \in Workers : Run(w)

----------------------------------------------------------------------------
(* AnalyzerService.analyze_repository *)

\* analysis_progress while file index of the list is analysed.
Analyzing(index) ==
    "Analyzing " \o ToString(index) \o "/" \o ToString(NumFiles) \o " files"

\* State before a call of analyze_repository: for an id without a row, or
\* for a repository in a status and with a progress text that earlier
\* analyses leave.
SInit ==
    /\ session = NewSession
    /\ checkpoints = {}
    /\ dbtasks = [p \in Paths |-> NoRows]
    /\ repo \in {NoRepository}
                  \cup {[status |-> s, analysis_progress |-> p] :
                          s \in {"idle", "analyzing", "completed", "error"},
                          p \in {"", Analyzing(NumFiles), RateLimited(1)}}
    /\ wk = [w \in Workers |-> IdleWorker]
    /\ view = IdleView
    /\ nresume = 0
    /\ nfault = 0
    /\ nraise = 0
    /\ sync = IdleSync

\* The call leaves the statements of the outer try block with an
\* exception: the outer "except Exception" clause is next.
SyncRaised(s) == [s EXCEPT !.pc = "outer"]

\* Repository.objects.get; "if repository.status == 'analyzing': return []";
\* an id without a row raises Repository.DoesNotExist, which is re-raised.
SyncLoad ==
    /\ sync.pc = "idle"
    /\ UNCHANGED <<tvars, pvars, nfault>>
    /\ UNCHANGED <<turn, npre>>
    /\ sync' = IF repo.status = "absent"
                 THEN [sync EXCEPT !.pc = "done", !.result = "not_found"]
               ELSE IF repo.status = "analyzing"
                 THEN [sync EXCEPT !.pc = "done", !.result = "returned"]
               ELSE [sync EXCEPT !.pc = "begin", !.repository = repo]
    /\ UNCHANGED <<session, checkpoints, dbtasks, repo, wk, view, nresume, nraise>>

\* repository.status = 'analyzing'; repository.save().  saved = FALSE: the
\* save raised.
SyncBegin(saved) ==
    /\ sync.pc = "begin"
    /\ UNCHANGED <<tvars, pvars, nfault>>
    /\ UNCHANGED <<turn, npre>>
    /\ LET r1 == [sync.repository EXCEPT !.status = "analyzing"]
           s1 == [sync EXCEPT !.repository = r1, !.pc = "fetch"]
       IN /\ repo' = IF saved THEN r1 ELSE repo
          /\ sync' = IF saved THEN s1 ELSE SyncRaised(s1)
    /\ UNCHANGED <<session, checkpoints, dbtasks, wk, view, nresume, nraise>>

\* get_repo_files.  found = "files": the list; "empty": no file, the
\* object's status becomes 'error' ahead of its save; "raised": it raised,
\* the "except Exception" clause of the fetch is next.
SyncFetch(found) ==
    /\ sync.pc = "fetch"
    /\ UNCHANGED <<tvars, pvars, nfault>>
    /\ UNCHANGED <<turn, npre>>
    /\ sync' = IF found = "files"
                 THEN [sync EXCEPT !.pc = "file", !.index = 1, !.all_tasks = 0]
               ELSE IF found = "empty"
                 THEN [sync EXCEPT !.repository.status = "error", !.pc = "empty"]
               ELSE [sync EXCEPT !.pc = "inner"]
    /\ UNCHANGED <<session, checkpoints, dbtasks, repo, wk, view, nresume, nraise>>

\* "if not files": repository.save(), then a bare raise, which raises
\* RuntimeError as no exception is being handled; like an exception of the
\* save it goes to the "except Exception" clause of the fetch.
SyncEmpty(saved) ==
    /\ sync.pc = "empty"
    /\ UNCHANGED <<tvars, pvars, nfault>>
    /\ UNCHANGED <<turn, npre>>
    /\ repo' = IF saved THEN sync.repository ELSE repo
    /\ sync' = [sync EXCEPT !.pc = "inner"]
    /\ UNCHANGED <<session, checkpoints, dbtasks, wk, view, nresume, nraise>>

\* The "except Exception" clause of the fetch: repository.status = 'error',
\* repository.save(), raise; the exception, or the one of the save, goes
\* to the outer clause.
SyncFetchHandler(saved) ==
    /\ sync.pc = "inner"
    /\ UNCHANGED <<tvars, pvars, nfault>>
    /\ UNCHANGED <<turn, npre>>
    /\ LET r1 == [sync.repository EXCEPT !.status = "error"]
       IN /\ repo' = IF saved THEN r1 ELSE repo
          /\ sync' = SyncRaised([sync EXCEPT !.repository = r1])
    /\ UNCHANGED <<session, checkpoints, dbtasks, wk, view, nresume, nraise>>

\* Loop head: analysis_progress = 'Analyzing i/n files'; repository.save().
SyncProgress(saved) ==
    /\ sync.pc = "file"
    /\ sync.index <= NumFiles
    /\ UNCHANGED <<tvars, pvars, nfault>>
    /\ UNCHANGED <<turn, npre>>
    /\ LET r1 == [sync.repository EXCEPT !.analysis_progress = Analyzing(sync.index)]
           s1 == [sync EXCEPT !.repository = r1, !.pc = "analyze"]
       IN /\ repo' = IF saved THEN r1 ELSE repo
          /\ sync' = IF saved THEN s1 ELSE SyncRaised(s1)
    /\ UNCHANGED <<session, checkpoints, dbtasks, wk, view, nresume, nraise>>

\* Loop body: analyze_file.  GeminiRateLimitError sets status 'error' and
\* the progress reached on the object, ahead of its save; any other
\* exception skips the file.
SyncAnalyze(out) ==
    /\ sync.pc = "analyze"
    /\ UNCHANGED <<tvars, pvars, nfault>>
    /\ UNCHANGED <<turn, npre>>
    /\ LET n == AnalyzeFileResult(out).tasks
           path == Files[sync.index]
       IN /\ dbtasks' = [dbtasks EXCEPT ![path].new = @ + n]
          /\ sync' = IF out = "rate_limit"
                       THEN [sync EXCEPT
                               !.repository.status = "error",
                               !.repository.analysis_progress = RateLimited(sync.index),
                               !.pc = "rate_limit"]
                       ELSE [sync EXCEPT
                               !.all_tasks = IF AnalyzeFileResult(out).raised
                                               THEN @ ELSE @ + n,
                               !.index = @ + 1, !.pc = "file"]
    /\ UNCHANGED <<session, checkpoints, repo, wk, view, nresume, nraise>>

\* The "except GeminiRateLimitError" clause: repository.save(), then
\* "return all_tasks"; an exception of the save goes to the outer clause.
SyncRateLimit(saved) ==
    /\ sync.pc = "rate_limit"
    /\ UNCHANGED <<tvars, pvars, nfault>>
    /\ UNCHANGED <<turn, npre>>
    /\ repo' = IF saved THEN sync.repository ELSE repo
    /\ sync' = IF saved THEN [sync EXCEPT !.pc = "done", !.result = "returned"]
                        ELSE SyncRaised(sync)
    /\ UNCHANGED <<session, checkpoints, dbtasks, wk, view, nresume, nraise>>

\* After the loop: repository.status = 'completed'; repository.save();
\* return all_tasks.
SyncComplete(saved) ==
    /\ sync.pc = "file"
    /\ sync.index = NumFiles + 1
    /\ UNCHANGED <<tvars, pvars, nfault>>
    /\ UNCHANGED <<turn, npre>>
    /\ LET r1 == [sync.repository EXCEPT !.status = "completed"]
           s1 == [sync EXCEPT !.repository = r1]
       IN /\ repo' = IF saved THEN r1 ELSE repo
          /\ sync' = IF saved THEN [s1 EXCEPT !.pc = "done", !.result = "returned"]
                              ELSE SyncRaised(s1)
    /\ UNCHANGED <<session, checkpoints, dbtasks, wk, view, nresume, nraise>>

\* The outer "except Exception" clause: repository.status = 'error' and
\* repository.save() in a try block whose handler ignores the exception,
\* then raise.
SyncHandler(saved) ==
    /\ sync.pc = "outer"
    /\ UNCHANGED <<tvars, pvars, nfault>>
    /\ UNCHANGED <<turn, npre>>
    /\ LET r1 == [sync.repository EXCEPT !.status = "error"]
       IN /\ repo' = IF saved THEN r1 ELSE repo
          /\ sync' = [sync EXCEPT !.repository = r1, !.pc = "done",
                                  !.result = "raised"]
    /\ UNCHANGED <<session, checkpoints, dbtasks, wk, view, nresume, nraise>>

\* One call of analyze_repository.
SNext ==
    \/ SyncLoad
    \/ \E saved \in BOOLEAN : SyncBegin(saved)
    \/ \E found \in {"files", "empty", "raised"} : SyncFetch(found)
    \/ \E saved \in BOOLEAN : SyncEmpty(saved)
    \/ \E saved \in BOOLEAN : SyncFetchHandler(saved)
    \/ \E saved \in BOOLEAN : SyncProgress(saved)
    \/ \E out \in AnalyzeOutcomes : SyncAnalyze(out)
    \/ \E saved \in BOOLEAN : SyncRateLimit(saved)
    \/ \E saved \in BOOLEAN : SyncComplete(saved)
    \/ \E saved \in BOOLEAN : SyncHandler(saved)

(* Response parser *)

MaxEntries == 3

\* Strings are sequences of characters.
UpperCase == <<"A", "B", "C", "D", "E", "F", "G", "H", "I", "J", "K", "L", "M", "N", "O", "P", "Q", "R", "S", "T", "U", "V", "W", "X", "Y", "Z">>

LowerCase == <<"a", "b", "c", "d", "e", "f", "g", "h", "i", "j", "k", "l", "m", "n", "o", "p", "q", "r", "s", "t", "u", "v", "w", "x", "y", "z">>

\* A str.lower that leaves every character as it is.
LowerCharUnchanged(c) == c

\* str.lower, character by character.
LowerChar(c) ==
    IF \E i \in 1..Len(UpperCase) : UpperCase[i] = c
      THEN LowerCase[CHOOSE i \in 1..Len(UpperCase) : UpperCase[i] = c]
      ELSE c

Lower(chars) == [i \in 1..Len(chars) |-> LowerChar(chars[i])]

\* ResponseParser.VULNERABILITY_TYPE_MAP: each mapped kind to itself.
VULNERABILITY_TYPE_MAP ==
    [k \in {<<"x", "s", "s">>,
          <<"s", "q", "l", "_", "i", "n", "j", "e", "c", "t", "i", "o", "n">>,
          <<"c", "s", "r", "f">>,
          <<"h", "a", "r", "d", "c", "o", "d", "e", "d", "_", "s", "e", "c", "r", "e", "t">>,
          <<"c", "o", "m", "m", "a", "n", "d", "_", "i", "n", "j", "e", "c", "t", "i", "o", "n">>,
          <<"p", "a", "t", "h", "_", "t", "r", "a", "v", "e", "r", "s", "a", "l">>,
          <<"a", "u", "t", "h", "e", "n", "t", "i", "c", "a", "t", "i", "o", "n", "_", "b", "y", "p", "a", "s", "s">>,
          <<"i", "n", "s", "e", "c", "u", "r", "e", "_", "d", "e", "s", "e", "r", "i", "a", "l", "i", "z", "a", "t", "i", "o", "n">>} |-> k]

\* Values of a response entry's fields: a string (its characters, or for a
\* title its length), an integer, None, or the key is absent.
Str(chars) == [kind |-> "str", chars |-> chars, length |-> Len(chars)]

Text(n) == [kind |-> "str", chars |-> <<>>, length |-> n]

IntValue(n) == [kind |-> "int", chars |-> <<>>, length |-> n]

NoneValue == [kind |-> "none", chars |-> <<>>, length |-> 0]

Absent == [kind |-> "absent", chars |-> <<>>, length |-> 0]

\* An entry of the response: a dict, or None in place of one.
Dict(type, title) ==
    [kind |-> "dict", type |-> type, title |-> title, line_number |-> IntValue(42)]

NoneEntry ==
    [kind |-> "none", type |-> Absent, title |-> Absent, line_number |-> Absent]

TypeValues ==
    {Str(<<"x", "s", "s">>), Str(<<"X", "S", "S">>), Str(<<"C", "s", "r", "f">>),
     Str(<<"u", "n", "k", "n", "o", "w", "n", "_", "v", "u", "l", "n">>), Absent, NoneValue}

\* A short title, one longer than the limit, none, and None.
TitleValues == {Text(5), Text(300), Absent, NoneValue}

Entries == {Dict(ty, ti) : ty \in TypeValues, ti \in TitleValues} \cup {NoneEntry}

Responses == UNION {[1..n -> Entries] : n \in 0..MaxEntries}

FilePath == "app.py"

\* dict.get(key, default)
Get(vuln, key, default) ==
    IF vuln[key].kind = "absent" THEN default ELSE vuln[key]

Min(a, b) == IF a < b THEN a ELSE b

\* The body of the try block for one entry: the validated dict ("ok"),
\* "skip" for the continue on an unknown type, "raise" for an exception,
\* which the handler answers with continue.
ValidateEntry(vuln, file_path) ==
    IF vuln.kind # "dict"
      THEN [outcome |-> "raise"]
      ELSE LET type == Get(vuln, "type", Str(<<>>))
           IN IF type.kind # "str"
                THEN [outcome |-> "raise"]
                ELSE LET vuln_type == Lower(type.chars)
                     IN IF vuln_type \notin DOMAIN VULNERABILITY_TYPE_MAP
                          THEN [outcome |-> "skip"]
                          ELSE LET title == Get(vuln, "title", Text(21))
                               IN IF title.kind # "str"
                                    THEN [outcome |-> "raise"]
                                    ELSE [outcome |-> "ok",
                                          value |->
                                            [type |-> VULNERABILITY_TYPE_MAP[vuln_type],
                                             title |-> Text(Min(title.length, 255)),
                                             file_path |-> file_path,
                                             line_number |->
                                               Get(vuln, "line_number", NoneValue)]]

RECURSIVE ParseFrom(_, _, _, _)
\* The loop of parse_vulnerabilities from entry i on.
ParseFrom(response, i, sofar, file_path) ==
    IF i > Len(response)
      THEN sofar
      ELSE LET r == ValidateEntry(response[i], file_path)
           IN ParseFrom(response, i + 1,
                        IF r.outcome = "ok" THEN Append(sofar, r.value) ELSE sofar,
                        file_path)

parse_vulnerabilities(response, file_path) == ParseFrom(response, 1, <<>>, file_path)

\* No call of the parser in progress.
PIdle ==
    /\ gemini_response = <<>>
    /\ validated = <<>>
    /\ ppc = "idle"

\* A call of parse_vulnerabilities with some response.
PInit ==
    /\ gemini_response \in Responses
    /\ validated = <<>>
    /\ ppc = "called"

ParseVulnerabilities ==
    /\ ppc = "called"
    /\ validated' = parse_vulnerabilities(gemini_response, FilePath)
    /\ ppc' = "returned"
    /\ UNCHANGED gemini_response
    /\ UNCHANGED <<ovars, rvars>>

----------------------------------------------------------------------------
(* Specifications *)

Init == OInit /\ RInit /\ PIdle

DispatchInit == OInit /\ DInit /\ PIdle

OverlapInit == OInit /\ XInit /\ PIdle

ParseInit == OInit /\ RInit /\ PInit

SyncInit == OInit /\ SInit /\ PIdle

\* One task driven by requests for the workflow, which may overlap.
Spec == Init /\ [][ONext]_vars

\* The same requests together with create_prs_for_repository.
PrSpec == Init /\ [][PNext]_vars

\* One session analysed by a queued run and its queue-level retries.
RunnerSpec == Init /\ [][RNext]_vars

\* One session analysed by queued runs, their retries and the runs queued
\* by resume requests, which may overlap.
ResumeSpec == Init /\ [][CNext]_vars

\* One session analysed by the run create_repository queued and the run a
\* resume request queued, with their retries.
OverlapSpec == OverlapInit /\ [][XNext]_vars

\* One queued task, with or without a session_id, and its retries.
DispatchSpec == DispatchInit /\ [][RNext]_vars

\* One call of analyze_repository.
SyncSpec == SyncInit /\ [][SNext]_vars

\* One call of parse_vulnerabilities on each response.
ParseSpec == ParseInit /\ [][ParseVulnerabilities]_vars

----------------------------------------------------------------------------
(* Properties of the verification orchestrator *)

\* The messages of the log statements in a statement list.
RECURSIVE Messages(_)
Messages(todo) ==
    IF todo = <<>> THEN <<>>
    ELSE IF Head(todo).op = "log" THEN <<Head(todo).msg>> \o Messages(Tail(todo))
    ELSE Messages(Tail(todo))

\* The log entries request i has written and those of the step it is in.
OwnLog(i) == inv[i].mylog \o Messages(inv[i].todo)

\* The same after the step.
OwnLogAfter(i) == inv'[i].mylog \o Messages(inv'[i].todo)

ConfirmedBeforeVerified(lg) ==
    \E i, j \in 1..Len(lg) :
        /\ i < j
        /\ lg[i] = LogEntry("info", "Test failed - vulnerability confirmed")
        /\ lg[j] = LogEntry("info", "Test passed - fix verified!")

\* Number of calls of the fix generator recorded in lg.
FixAttempts(lg) ==
    Cardinality({i \in 1..Len(lg) : lg[i] = LogEntry("info", "Generating fix...")})

\* Number of fix attempts among the test runs rn whose verification
\* failed (the test still failed with the fix applied, or verifying
\* raised).
FailedVerifications(rn) ==
    Cardinality({k \in 1..Len(rn) : rn[k].step = "verify" /\ ~rn[k].ok})

\* The confirmation step of request i found the test failing against the
\* original code and returned True.
Confirmed(i) ==
    \E k \in 1..Len(inv[i].ran) :
        inv[i].ran[k].step = "confirm" /\ inv[i].ran[k].ok

\* verify_and_fix_vulnerability of request i has returned and every
\* statement of it has reached the database.
HasReturned(i) == At(i, "returned") /\ inv[i].via # "prs"

\* The step is one of request i's workflow in which it assigns
\* status = 'completed' to its task.
StatusSetCompleted(i) ==
    /\ inv[i].pc \in {"success", "create_pr"}
    /\ inv'[i].pc # inv[i].pc
    /\ inv'[i].t.status = "completed"

\* C1: whenever a step of an invocation sets the task's status to
\* 'completed', fix_status is 'verified' and, within that same invocation,
\* the test failed against the original code (vulnerability confirmed) at
\* an earlier step than the one that verified the fix; this for requests
\* that follow one another and for requests that overlap.
C1_CompletedOnlyAfterConfirmAndVerify ==
    [][\A i \in Invocations :
          StatusSetCompleted(i) =>
              /\ inv'[i].t.fix_status = "verified"
              /\ inv'[i].t.test_status = "passed"
              /\ ConfirmedBeforeVerified(OwnLogAfter(i))]_vars

\* A request has returned True for a task it completed on its second fix,
\* and the row shows it.
C1_Witness ==
    \E i \in Invocations :
        /\ HasReturned(i) /\ inv[i].ret = "True"
        /\ inv[i].t.retry_count = 1
        /\ task.status = "completed" /\ task.fix_status = "verified"
        /\ task = inv[i].t

\* C2: one invocation calls the fix generator at most MAX_RETRIES + 1 = 2
\* times, and retry_count never exceeds 2, in the object of any request and
\* in the row, also over repeated invocations.
C2_RetryBound ==
    /\ task.retry_count <= MAX_RETRIES + 1
    /\ \A i \in Invocations :
          /\ inv[i].t.retry_count <= MAX_RETRIES + 1
          /\ FixAttempts(OwnLog(i)) <= MAX_RETRIES + 1

\* A second invocation on a task with one counted retry failed its only
\* attempt and gave the task up.
C2_Witness ==
    /\ HasReturned(2)
    /\ inv[2].t0.retry_count = MAX_RETRIES
    /\ inv[2].t.retry_count = MAX_RETRIES + 1
    /\ inv[2].t.status = "false_positive"
    /\ FixAttempts(OwnLog(2)) = 1
    /\ task.retry_count = MAX_RETRIES + 1

\* C12 (as claimed): an invocation whose generated test passed when run at
\* the confirmation step returns False with status 'false_positive' and
\* test_status 'passed'; it has called the fix generator zero times and
\* fix_code is what it was when the invocation began.
C12_PassingTestIsFalsePositive ==
    \A i \in Invocations :
        (HasReturned(i) /\ inv[i].ending = "exit_0") =>
            /\ inv[i].ret = "False"
            /\ inv[i].t.status = "false_positive"
            /\ inv[i].t.test_status = "passed"
            /\ FixAttempts(inv[i].mylog) = 0
            /\ inv[i].t.fix_code = inv[i].t0.fix_code

C14_PrFailureKeepsCompleted ==
    \A i \in Invocations :
        (HasReturned(i) /\ inv[i].result = "pipeline_failed") =>
            /\ inv[i].ret = "True"
            /\ inv[i].t.status = "completed"
            /\ inv[i].t.fix_status = "verified"
            /\ \E k \in 1..Len(inv[i].t.validation_message) :
                  inv[i].t.validation_message[k] = "PR creation failed"
            /\ inv[i].pr_url = ""

\* C15 (as claimed): when an invocation has returned, its task's status is
\* one of the terminal outcomes: completed or pr_created (verified-fixed),
\* false_positive, or failed; it is not 'pending' or 'processing'.
C15_ReturnsInTerminalOutcome ==
    \A i \in Invocations :
        HasReturned(i) =>
            inv[i].t.status \in {"completed", "pr_created", "false_positive", "failed"}

\* verify_and_fix_vulnerability of request i is over: it has returned or
\* an exception has left it.
Over(i) == inv[i].pc \in {"returned", "handler", "done"} /\ inv[i].todo = <<>>

\* C18 (as claimed): an invocation in which MAX_RETRIES + 1 fix attempts
\* were generated and failed verification returns False with status
\* 'false_positive' and fix_status 'failed', having generated no further
\* fix.
C18_ExhaustedRetriesGiveFalsePositive ==
    \A i \in Invocations :
        (Over(i) /\ inv[i].via # "prs"
           /\ FailedVerifications(inv[i].ran) = MAX_RETRIES + 1) =>
            /\ inv[i].ret = "False"
            /\ inv[i].t.status = "false_positive"
            /\ inv[i].t.fix_status = "failed"
            /\ FixAttempts(inv[i].mylog) = MAX_RETRIES + 1

\* The step is a generation step of request i (of the test or of a fix)
\* whose generator returned an empty result.
EmptyGeneration(i, what) ==
    /\ inv[i].pc = (IF what = "test" THEN "generate_test" ELSE "fix_loop")
    /\ inv[i].todo = <<>> /\ inv'[i].todo # <<>>
    /\ \E k \in 1..Len(inv'[i].todo) :
          inv'[i].todo[k].msg = LogEntry("error", "Failed to generate " \o what)

\* C19: a generation step whose generator returned an empty result ends the
\* invocation at once with return value False, test_status 'error' (test)
\* or fix_status 'failed' (fix); no test is run in the step, and
\* retry_count, test_code and fix_code are what they were before it.
C19_EmptyGenerationAborts ==
    [][\A i \in Invocations :
          /\ EmptyGeneration(i, "test") => inv'[i].t.test_status = "error"
          /\ EmptyGeneration(i, "fix") => inv'[i].t.fix_status = "failed"
          /\ (EmptyGeneration(i, "test") \/ EmptyGeneration(i, "fix")) =>
                /\ inv'[i].pc = "returned" /\ inv'[i].ret = "False"
                /\ inv'[i].ran = inv[i].ran
                /\ inv'[i].t.retry_count = inv[i].t.retry_count
                /\ inv'[i].t.test_code = inv[i].t.test_code
                /\ inv'[i].t.fix_code = inv[i].t.fix_code]_vars

\* The second fix generation of an invocation came back empty: the first
\* fix is still stored and the one failed verification is counted.
C19_Witness ==
    /\ HasReturned(1) /\ inv[1].ret = "False"
    /\ tasklog[Len(tasklog)] = LogEntry("error", "Failed to generate fix")
    /\ FixAttempts(OwnLog(1)) = 2
    /\ Len(inv[1].ran) = 2
    /\ task.fix_code = "fix_1" /\ task.fix_status = "failed"
    /\ task.retry_count = 1

\* Endings of a test run other than the test passing or its assertions
\* failing.
ExecutionErrors == TestEndings \ {"exit_0", "exit_1"}

\* C20 (as claimed): when the run of the test against the original code
\* ends in an execution error (crash, timeout, anything but the test's
\* assertions failing), the step stores test_status 'error' and the
\* invocation returns False without generating a fix.
C20_ExecutionErrorAborts ==
    [][\A i \in Invocations :
          (inv[i].pc = "verify_vulnerability" /\ inv'[i].pc # inv[i].pc
             /\ inv'[i].ending \in ExecutionErrors) =>
              /\ inv'[i].t.test_status = "error"
              /\ inv'[i].pc = "returned" /\ inv'[i].ret = "False"]_vars

\* C21 (as claimed): every call of run_test and of run_test_with_fix has
\* removed its temporary file or directory when it is over, on every exit
\* path: no state between two steps holds a leftover.
C21_TempFilesRemoved == tmp = {}

\* C22: once an invocation has run its test against the original code, no
\* step of it changes the test_code it holds, whatever test another
\* request stores for the task meanwhile; every verification run of the
\* invocation uses the test code of its confirmation run, in which the
\* test failed.
C22_SameTestForEveryFix ==
    [][\A i \in Invocations :
          /\ inv[i].ran # <<>> => inv'[i].t.test_code = inv[i].t.test_code
          /\ \A k \in 1..Len(inv'[i].ran) :
                inv'[i].ran[k].step = "verify" =>
                    /\ inv'[i].ran[1].step = "confirm"
                    /\ inv'[i].ran[1].ok
                    /\ inv'[i].ran[k].test_code = inv'[i].ran[1].test_code]_vars

\* Two different fixes were verified against the test the request had
\* confirmed, while the row held another test, generated for a later
\* request.
C22_Witness ==
    \E i \in Invocations :
        /\ Len(inv[i].ran) = 3
        /\ inv[i].ran[1].step = "confirm"
        /\ inv[i].ran[2].step = "verify" /\ inv[i].ran[3].step = "verify"
        /\ inv[i].ran[2].fix_code # inv[i].ran[3].fix_code
        /\ inv[i].ran[2].test_code = inv[i].ran[1].test_code
        /\ inv[i].ran[3].test_code = inv[i].ran[1].test_code
        /\ inv[i].t.test_code = inv[i].ran[1].test_code
        /\ task.test_code \in TestCodes \ {inv[i].t.test_code}

\* The step is a run of the PR pipeline by request i in which a stage
\* raised.
PrPipelineFailed(i) ==
    /\ inv[i].pc = "create_pr"
    /\ inv'[i].result = "pipeline_failed"

\* The statements of a run of the PR pipeline in which no stage raised.
WholePipeline(todo) ==
    /\ Messages(todo) = <<LogEntry("info", "Creating Github pull request..."),
                          LogEntry("info", "Created branch"),
                          LogEntry("info", "Committed fix to branch"),
                          LogEntry("info", "Pull request created")>>
    /\ \E k \in 1..Len(todo) : todo[k].op = "pr"

\* The log entries of the pipeline stages ahead of the opening of the pull
\* request are in lg.
StagesLogged(lg) ==
    \A msg \in {"Creating Github pull request...", "Created branch",
                 "Committed fix to branch"} :
        \E k \in 1..Len(lg) : lg[k] = LogEntry("info", msg)

\* C25: the object of a request comes to hold status 'pr_created' only for
\* a task whose fix_status is 'verified', and only in a step in which all
\* stages of the PR pipeline succeed or after the request has opened the
\* pull request itself; the PR URL is set only as the pull request is
\* recorded, with the stages ahead of it logged, for such a task; a step in
\* which a stage of the pipeline raised never ends with status
\* 'pr_created'; and the row has status 'pr_created' only when a pull
\* request is recorded for the task.
C25_PrCreatedOnlyAfterWholePipeline ==
    [][/\ \A i \in Invocations :
             /\ (inv[i].pc # "idle" /\ inv'[i].t.status = "pr_created"
                   /\ inv[i].t.status # "pr_created") =>
                   /\ inv[i].t.fix_status = "verified"
                   /\ inv'[i].t.fix_status = "verified"
                   /\ \/ WholePipeline(inv'[i].todo)
                      \/ /\ inv[i].pr_url = PullRequestUrl
                         /\ StagesLogged(inv[i].mylog)
             /\ inv'[i].pr_url # inv[i].pr_url =>
                   /\ inv'[i].pr_url = PullRequestUrl
                   /\ inv'[i].t.fix_status = "verified"
                   /\ pulls' = pulls + 1
                   /\ StagesLogged(inv'[i].mylog)
             /\ PrPipelineFailed(i) => inv'[i].t.status # "pr_created"
       /\ task'.status = "pr_created" => pulls' >= 1]_vars

\* The pipeline run by create_prs_for_repository succeeded for a task
\* whose earlier pipeline, run by the workflow, had failed.
C25_Witness ==
    /\ task.status = "pr_created"
    /\ task.fix_status = "verified"
    /\ pulls = 1
    /\ inv[1].result = "pipeline_failed"
    /\ inv[2].via = "prs" /\ inv[2].result = "opened"
    /\ inv[2].pr_url = PullRequestUrl
    /\ At(2, "done")

\* The positions of the workflow steps of verify_and_fix_vulnerability and
\* of _create_github_pr.
WorkflowSteps ==
    {"generate_test", "verify_vulnerability", "fix_loop", "verify_fix",
     "success", "create_pr"}

\* The statements todo hold a log entry ahead of their first task.save().
LogAheadOfSave(todo) ==
    \A k \in 1..Len(todo) :
        todo[k].op = "save" => \E j \in 1..(k - 1) : todo[j].op = "log"

\* C26 (as claimed): no step changes or removes an entry the task's log
\* holds, and every workflow step that stores the task writes a log entry
\* before it does.
C26_LogIsAppendOnly ==
    [][/\ Len(tasklog') >= Len(tasklog)
       /\ SubSeq(tasklog', 1, Len(tasklog)) = tasklog
       /\ \A i \in Invocations :
             (inv[i].pc \in WorkflowSteps /\ inv[i].todo = <<>>
                /\ inv'[i].pc # inv[i].pc) =>
                 LogAheadOfSave(inv'[i].todo)]_vars

\* C29 (as claimed): an invocation in which the test failed at
\* confirmation has, once it returned, made at least one fix-generation
\* attempt and left fix_status 'verified' or 'failed'.
C29_ConfirmedInvocationAttemptsFix ==
    \A i \in Invocations :
        (HasReturned(i) /\ Confirmed(i)) =>
            /\ FixAttempts(OwnLog(i)) >= 1
            /\ inv[i].t.fix_status \in {"verified", "failed"}

----------------------------------------------------------------------------
(* Properties of the checkpointed runner *)

\* The checkpoint of the session with the highest number.
HighestNumbered(cps) ==
    CHOOSE c \in cps : \A d \in cps : d.checkpoint_number <= c.checkpoint_number

\* The step invokes the per-file analyzer for worker w.
Analyzes(w) ==
    /\ wk[w].pc = "loop"
    /\ wk'[w].pc \in {"progress", "file_failed"}

\* The run of worker w has gone through the file list and its task has
\* stored the session as completed.
RunOver(w) == wk[w].pc = "finish_repo"

\* C3 (as claimed): a run that started on a session with a checkpoint never
\* invokes the per-file analyzer for a path in files_processed of the
\* session's highest-numbered checkpoint.
C3_NoReanalysisOfCheckpointedPath ==
    [][\A w \in Workers :
          (Analyzes(w) /\ wk[w].has_ckpt) =>
              ~InSeq(Files[wk[w].index + 1],
                     HighestNumbered(checkpoints).files_processed)]_vars

C5_CheckpointPerKProcessed ==
    (/\ wk[1].pc = "loop"
     /\ Len(wk[1].processed) - Len(wk[1].resumed) + session.files_failed
            <= wk[1].index) =>
        wk[1].new_ckpts =
            (Len(wk[1].processed) - Len(wk[1].resumed)) \div CheckpointInterval

\* C6 (as claimed): the stored files_analyzed and files_failed never
\* decrease from one state to the next.
C6_CountersNeverDecrease ==
    [][/\ session'.files_analyzed >= session.files_analyzed
       /\ session'.files_failed >= session.files_failed]_vars

\* C7 (as claimed): once total_files is recorded,
\* files_analyzed + files_failed <= total_files.
C7_CountsWithinTotal ==
    session.total_files # 0 =>
        session.files_analyzed + session.files_failed <= session.total_files

\* C8 (as claimed): once total_files is recorded no step changes it.
C8_TotalFilesWrittenOnce ==
    [][session.total_files # 0 => session'.total_files = session.total_files]_vars

\* C9 (as claimed): a completed session has completed_at set and no step
\* changes any of its fields.
C9_CompletedSessionFrozen ==
    [][session.status = "completed" =>
          (session.completed_at /\ session' = session)]_vars

\* C10 (as claimed): once the analyzer raised rate-limit-exhausted on the
\* file at index i of a run and the handler of that file is over, the run
\* has analysed no later file and the repository is in error status with a
\* progress message recording i of the total as completed.
C10_RateLimitStopsRun ==
    (wk[1].rl_index # -1
       /\ wk[1].pc \in {"loop", "count", "finish", "finish_repo"}) =>
        /\ \A i \in wk[1].analyzed : i <= wk[1].rl_index
        /\ repo.status = "error"
        /\ repo.analysis_progress = RateLimited(wk[1].rl_index + 1)

\* C11 (as claimed): when the per-file analyzer raises for a file (any kind
\* of fault), the processed list stays as it was, and the handler of the
\* file adds exactly one to files_failed and leaves the run in its loop at
\* the next file of the list.
C11_FileFailureIsNotFatal ==
    [][\A w \in Workers :
          /\ (Analyzes(w) /\ AnalyzeFileResult(wk'[w].last_out).raised) =>
                /\ wk'[w].pc = "file_failed"
                /\ wk'[w].processed = wk[w].processed
          /\ (wk[w].pc = "file_failed" /\ wk'[w].pc # "file_failed"
                /\ AnalyzeFileResult(wk[w].last_out).raised) =>
                /\ wk'[w].pc = "loop"
                /\ wk'[w].index = wk[w].index + 1
                /\ wk'[w].processed = wk[w].processed
                /\ wk'[w].sess.files_failed = wk[w].sess.files_failed + 1
                /\ session' = wk'[w].sess]_vars

\* C16 (as claimed): whenever the failure handler of analyze_repository_async
\* has run for a run that raised, for a task queued with a session_id or
\* without one, it leaves the run's session with status 'failed', an error
\* message, and retry_count one higher.
C16_RunFailureMarksSessionFailed ==
    [][(wk[1].pc \in {"failed", "mark_failed"}
          /\ wk'[1].pc \in {"queued", "done"}) =>
          /\ session'.status = "failed"
          /\ session'.error_message # ""
          /\ session'.retry_count = session.retry_count + 1]_vars

\* C17: the checkpoints of a session carry distinct numbers; a step never
\* changes or removes an existing checkpoint; a checkpoint a run creates
\* has the number after the run's counter, above every existing one; and a
\* run that starts on a session with checkpoints takes its counter from the
\* highest-numbered one.
C17_CheckpointNumbersIncrease ==
    [][/\ \A c, d \in checkpoints' :
             c.checkpoint_number = d.checkpoint_number => c = d
       /\ checkpoints \subseteq checkpoints'
       /\ \A n \in checkpoints' \ checkpoints :
             /\ \A c \in checkpoints : n.checkpoint_number > c.checkpoint_number
             /\ \E w \in Workers :
                   /\ wk[w].pc = "checkpoint"
                   /\ n.checkpoint_number = wk[w].counter + 1
       /\ \A w \in Workers :
             (wk[w].pc = "start" /\ wk'[w].pc = "fetch" /\ checkpoints # {}) =>
                 wk'[w].counter = HighestNumbered(checkpoints).checkpoint_number]_vars

\* A run resumed from checkpoint 1 has written checkpoint 2.
C17_Witness ==
    \E w \in Workers :
        /\ wk[w].has_ckpt
        /\ Len(wk[w].resumed) = CheckpointInterval
        /\ wk[w].new_ckpts = 1
        /\ {c.checkpoint_number : c \in checkpoints} = {1, 2}
        /\ \E c \in checkpoints :
              c.checkpoint_number = 2 /\ c.files_processed = wk[w].processed

\* The paths of a processed list.
PathsOf(sq) == {sq[i] : i \in 1..Len(sq)}

\* C23 (as claimed): every checkpoint lists the path at its
\* last_file_index and includes files_processed of every lower-numbered
\* checkpoint of the session.
C23_CheckpointsNested ==
    \A c \in checkpoints :
        /\ Files[c.last_file_index + 1] \in PathsOf(c.files_processed)
        /\ \A d \in checkpoints :
              d.checkpoint_number < c.checkpoint_number =>
                  PathsOf(d.files_processed) \subseteq PathsOf(c.files_processed)

\* C24 (as claimed): when the checkpoint write after a successfully analysed
\* file fails, the exception leaves the runner; the run does not go on to
\* the next file.
C24_PersistenceFailurePropagates ==
    [][\A w \in Workers :
          (wk[w].pc = "checkpoint" /\ wk'[w].pc # "checkpoint"
             /\ CheckpointWriteFails(w)) =>
              wk'[w].pc = "failed"]_vars

\* Worker w is inside analyze_repository_async: it has loaded the
\* repository and has neither returned nor handed the task back to the
\* queue.
Executing(w) == wk[w].pc \notin {"idle", "queued", "done"}

\* C28 (as claimed): a resume_session request queues a run only when no run
\* of the session is executing.
C28_NoDispatchWhileRunning ==
    [][nresume' = nresume + 1 => \A w \in Workers : ~Executing(w)]_vars

\* C30 (as claimed): the attempts of one dispatched task create at most one
\* AnalysisSession between them, and a task whose last retry failed
\* returns 'failed'.
C30_OneSessionPerDispatch ==
    /\ wk[1].created <= 1
    /\ (wk[1].pc = "done" /\ wk[1].attempt = CeleryMaxRetries
          /\ wk[1].result # "completed") => wk[1].result = "failed"

\* The state the overlapping runs start from is one the requests lead to.
XInitReached ==
    /\ session = ResumedSession
    /\ checkpoints = {}
    /\ wk[1] = [IdleWorker EXCEPT !.pc = "queued"]
    /\ wk[2] = [IdleWorker EXCEPT !.pc = "fetch", !.sess = ResumedSession]
    /\ view = IdleView
    /\ nresume = 1
    /\ nfault = 0

----------------------------------------------------------------------------
(* Properties of the response parser *)

\* The mapped kind k is chars up to the case of its letters.
IsKindOf(k, chars) ==
    /\ Len(k) = Len(chars)
    /\ \A i \in 1..Len(k) :
          \/ k[i] = chars[i]
          \/ \E j \in 1..Len(UpperCase) :
                UpperCase[j] = chars[i] /\ LowerCase[j] = k[i]

\* The entry is a dict whose lower-cased type is a mapped kind and whose
\* title, when it has one, is a string.
Accepted(vuln) ==
    /\ vuln.kind = "dict"
    /\ vuln.type.kind = "str"
    /\ \E k \in DOMAIN VULNERABILITY_TYPE_MAP : IsKindOf(k, vuln.type.chars)
    /\ vuln.title.kind \in {"str", "absent"}

AcceptedIndexes == {i \in 1..Len(gemini_response) : Accepted(gemini_response[i])}

\* The position in the result of the accepted entry at index i.
Rank(i) == Cardinality({j \in AcceptedIndexes : j <= i})

\* C27: parse_vulnerabilities returns for every response, and its result
\* holds, in input order, one validated entry for each entry of the response
\* whose lower-cased type is a mapped kind, with that kind as its type;
\* entries of an unmapped type and malformed entries (None in place of a
\* dict, a type or a title that is None) are left out.
C27_ParseKeepsMappedEntriesInOrder ==
    ppc = "returned" =>
        /\ Len(validated) = Cardinality(AcceptedIndexes)
        /\ \A i \in AcceptedIndexes :
              LET vuln == gemini_response[i]
                  out == validated[Rank(i)]
              IN /\ out.type \in DOMAIN VULNERABILITY_TYPE_MAP
                 /\ IsKindOf(out.type, vuln.type.chars)
                 /\ out.title.length =
                      (IF vuln.title.kind = "absent"
                         THEN 21 ELSE Min(vuln.title.length, 255))
                 /\ out.line_number = vuln.line_number
                 /\ out.file_path = FilePath

\* A response of an upper-case mapped type, None, and a mapped type with a
\* long title has been parsed to two entries in that order.
C27_Witness ==
    /\ ppc = "returned"
    /\ Len(gemini_response) = 3
    /\ gemini_response[1].kind = "dict"
    /\ gemini_response[1].type = Str(<<"X", "S", "S">>)
    /\ gemini_response[1].title = Text(5)
    /\ gemini_response[2] = NoneEntry
    /\ gemini_response[3].kind = "dict"
    /\ gemini_response[3].type = Str(<<"C", "s", "r", "f">>)
    /\ gemini_response[3].title = Text(300)
    /\ Len(validated) = 2
    /\ validated[1].title = Text(5)
    /\ validated[2].title = Text(255)
====
